---- MODULE Spec2Model ----
(***************************************************************************)
(* Model of the term-matching and validation core of DSPyEDAM              *)
(* (enhanced_edam_matcher.py): the EDAMValidator, the chunking of the      *)
(* vocabulary under a character budget, the per-chunk calls of the         *)
(* matcher with retry, and the best-of-chunks aggregation of               *)
(* EnhancedEDAMMatchingSystem.match_package_to_ontology, the batch loop of *)
(* process_packages_in_batches, and search_relevant_terms of both          *)
(* matching systems (edam_ontology_matcher.py for the basic one), with     *)
(* the default sample of preprocess_edam_terms the basic matcher falls     *)
(* back to.  The log of the calls records what each call answered and how  *)
(* long the retry loop slept after it.                                     *)
(*                                                                         *)
(* Strings are TLA+ strings (Len and \o act on them as len() and + do).    *)
(* A confidence score is an integer number of tenths (0.9 is 9, the        *)
(* fallback's 0.1 is 1, the initial best_confidence -1 is -10).            *)
(* A package description is represented by its length, the only thing the  *)
(* matcher computes from it.                                               *)
(***************************************************************************)
EXTENDS Integers, Sequences, FiniteSets, TLC

VARIABLES
    validator,      \* the EDAMValidator object (its fields)
    edam_df,        \* EnhancedEDAMMatchingSystem.edam_df (non-obsolete rows)
    simple_mode,    \* EnhancedEDAMMatchingSystem.simple_mode
    vignette_chars, \* len(package_description) of the item being matched
    pc,             \* position of match_package_to_ontology
    chunk_entries,  \* the chunks built from the ontology entries
    chunk_idx,      \* 1-based index of the chunk being queried
    attempt,        \* the attempt number of the retry loop (0-based)
    best_match,     \* best match seen so far (None before the first)
    best_confidence,\* its confidence
    result,         \* the value returned by match_package_to_ontology
    log,            \* history: one entry per call of self.matcher (what it
                    \* answered or raised, and the match recorded)
    v_in,           \* a method exercised alone: its arguments
    v_out,          \* ... and what it returned
    packages_data,  \* the argument of process_packages_in_batches
    batch_size,     \* EnhancedEDAMMatchingSystem.batch_size
    run,            \* position of process_packages_in_batches
    raised,         \* the exception that left it (None when none did)
    batch_num,      \* its loop variable (0-based)
    batch,          \* the batch being processed
    pkg_idx,        \* packages of the batch the inner loop is done with
    batch_results,  \* the records of the batch
    all_results,    \* the records of the batches completed
    files,          \* the batch files written, by name
    batches,        \* history: the batches taken so far
    matched         \* history: positions (1-based) of the packages
                    \* match_package_to_ontology was called for

\* the state of process_packages_in_batches
batch_vars == <<packages_data, batch_size, run, raised, batch_num, batch,
                pkg_idx, batch_results, all_results, files, batches, matched>>

vars == <<validator, edam_df, simple_mode, vignette_chars, pc, chunk_entries,
          chunk_idx, attempt, best_match, best_confidence, result, log,
          v_in, v_out, batch_vars>>

(***************************************************************************)
(* Bounds of the model.                                                    *)
(***************************************************************************)
\* rows of the EDAM table that are loaded (a prefix of EDAM_CSV / any
\* selection of that many rows)
MaxTerms == 4
\* largest chunk budget tried by the chunking specification
MaxBudget == 20
\* largest top_k given to search_relevant_terms
MaxTopK == 2
\* longest list of packages given to process_packages_in_batches
MaxPackages == 3
\* largest batch_size tried
MaxBatchSize == 2

(***************************************************************************)
(* Python values.                                                          *)
(***************************************************************************)
None == "<None>"
NaN == "<NaN>"

notna(x) == x # NaN

\* truth value of an Optional[str] in an `if`
Truthy(x) == x # None /\ x # ""

\* dict assignment d[k] = v
Put(d, k, v) == [x \in (DOMAIN d) \cup {k} |-> IF x = k THEN v ELSE d[x]]

\* dict.get(k)
Get(d, k) == IF k \in DOMAIN d THEN d[k] ELSE None

EmptyDict == [x \in {} |-> x]

(***************************************************************************)
(* The EDAM table.  Rows carry the columns the code reads: Class ID,       *)
(* Preferred Label, Definitions, Synonyms (given as the pieces that        *)
(* split('|') yields, or NaN for an empty cell) and Obsolete.              *)
(***************************************************************************)
Row(id, label, definition, synonyms, obsolete) ==
    [id |-> id, label |-> label, definition |-> definition,
     synonyms |-> synonyms, obsolete |-> obsolete]

EDAM_CSV ==
    << Row("topic_0003", "Topic", "A category", NaN, FALSE),
       Row("topic_0001", "Old topic", NaN, <<"Topic area">>, TRUE),
       Row("operation_2945", "Analysis", NaN, <<"Study ", "", "GEX">>, FALSE),
       Row("data_0006", "Data", "Information", <<"Datum", "Study">>, FALSE),
       Row("topic_0203", "Gene expression", NaN, <<" GEX", "Data">>, FALSE),
       Row("format_1915", "Format", NaN, NaN, FALSE) >>

\* str.strip() on the synonym pieces of the table
strip(s) == CASE s = "Study " -> "Study"
              [] s = " GEX" -> "GEX"
              [] OTHER -> s

(***************************************************************************)
(* EDAMValidator.                                                          *)
(***************************************************************************)
\* set(self.edam_df['Class ID'].dropna())
valid_ids_of(rows) == {rows[i].id : i \in {j \in DOMAIN rows : notna(rows[j].id)}}

\* set(self.edam_df['Preferred Label'].dropna())
valid_labels_of(rows) ==
    {rows[i].label : i \in {j \in DOMAIN rows : notna(rows[j].label)}}

\* the inner loop over the synonym pieces of one row: every non-empty
\* stripped piece is mapped to the row's label and id (a later row wins)
RECURSIVE IndexSynonyms(_, _, _, _)
IndexSynonyms(v, pieces, k, row) ==
    IF k > Len(pieces) THEN v
    ELSE LET synonym == strip(pieces[k])
         IN  IF synonym # ""
             THEN IndexSynonyms(
                    [v EXCEPT
                       !.synonym_to_label = Put(@, synonym, row.label),
                       !.synonym_to_id = Put(@, synonym, row.id)],
                    pieces, k + 1, row)
             ELSE IndexSynonyms(v, pieces, k + 1, row)

\* the loop `for _, row in self.edam_df.iterrows()` of __init__
RECURSIVE IndexRows(_, _, _)
IndexRows(v, rows, i) ==
    IF i > Len(rows) THEN v
    ELSE LET row == rows[i]
         IN  IF notna(row.id) /\ notna(row.label)
             THEN LET w == [v EXCEPT
                              !.id_to_label = Put(@, row.id, row.label),
                              !.label_to_id = Put(@, row.label, row.id)]
                  IN  IF v.use_synonyms /\ notna(row.synonyms)
                      THEN IndexRows(IndexSynonyms(w, row.synonyms, 1, row),
                                     rows, i + 1)
                      ELSE IndexRows(w, rows, i + 1)
             ELSE IndexRows(v, rows, i + 1)

\* EDAMValidator(edam_csv_path, use_synonyms): the object after __init__
EDAMValidator(rows, use_synonyms) ==
    IndexRows([edam_df |-> rows,
               valid_ids |-> valid_ids_of(rows),
               valid_labels |-> valid_labels_of(rows),
               id_to_label |-> EmptyDict,
               label_to_id |-> EmptyDict,
               use_synonyms |-> use_synonyms,
               synonym_to_label |-> EmptyDict,
               synonym_to_id |-> EmptyDict],
              rows, 1)

\* faulty variant: a synonym is returned as it is, with the id of its term
normalize_label_and_idKeepsSynonym(v, label_or_synonym) ==
    IF label_or_synonym \in DOMAIN v.label_to_id
    THEN <<label_or_synonym, v.label_to_id[label_or_synonym]>>
    ELSE IF v.use_synonyms /\ label_or_synonym \in DOMAIN v.synonym_to_label
         THEN <<label_or_synonym, v.synonym_to_id[label_or_synonym]>>
         ELSE <<None, None>>

normalize_label_and_id(v, label_or_synonym) ==
    IF label_or_synonym \in DOMAIN v.label_to_id
    THEN <<label_or_synonym, v.label_to_id[label_or_synonym]>>
    ELSE IF v.use_synonyms /\ label_or_synonym \in DOMAIN v.synonym_to_label
         THEN <<v.synonym_to_label[label_or_synonym],
                v.synonym_to_id[label_or_synonym]>>
         ELSE <<None, None>>

validate_id(v, edam_id) == edam_id \in v.valid_ids

\* faulty variant: with synonyms on, only the synonym index is consulted
validate_labelSynonymsOnly(v, edam_label) ==
    IF v.use_synonyms
    THEN edam_label \in DOMAIN v.synonym_to_label
    ELSE edam_label \in v.valid_labels

validate_label(v, edam_label) ==
    IF v.use_synonyms
    THEN edam_label \in v.valid_labels
         \/ edam_label \in DOMAIN v.synonym_to_label
    ELSE edam_label \in v.valid_labels

\* The messages of validate_match, by kind.
IdNotFound == "EDAM ID not found in CSV"
LabelNotFound == "EDAM label not found in CSV"
ValidMatch == "Valid match"
ValidViaSynonym == "Valid match (via synonym)"
SynonymOfOther == "Label is a synonym for another term"
WrongLabel == "ID should have another label"

\* faulty variant: the label is checked before the id
validate_matchLabelFirst(v, edam_id, edam_label) ==
    IF ~validate_label(v, edam_label) THEN <<FALSE, LabelNotFound>>
    ELSE IF ~validate_id(v, edam_id) THEN <<FALSE, IdNotFound>>
    ELSE LET expected_label == Get(v.id_to_label, edam_id)
         IN  IF expected_label = edam_label THEN <<TRUE, ValidMatch>>
             ELSE IF v.use_synonyms /\ edam_label \in DOMAIN v.synonym_to_label
                  THEN IF v.synonym_to_id[edam_label] = edam_id
                       THEN <<TRUE, ValidViaSynonym>>
                       ELSE <<FALSE, SynonymOfOther>>
                  ELSE <<FALSE, WrongLabel>>

validate_match(v, edam_id, edam_label) ==
    IF ~validate_id(v, edam_id) THEN <<FALSE, IdNotFound>>
    ELSE IF ~validate_label(v, edam_label) THEN <<FALSE, LabelNotFound>>
    ELSE LET expected_label == Get(v.id_to_label, edam_id)
         IN  IF expected_label = edam_label THEN <<TRUE, ValidMatch>>
             ELSE IF v.use_synonyms /\ edam_label \in DOMAIN v.synonym_to_label
                  THEN IF v.synonym_to_id[edam_label] = edam_id
                       THEN <<TRUE, ValidViaSynonym>>
                       ELSE <<FALSE, SynonymOfOther>>
                  ELSE <<FALSE, WrongLabel>>

get_label_for_id(v, edam_id) == Get(v.id_to_label, edam_id)

get_id_for_label(v, edam_label) == Get(v.label_to_id, edam_label)

fix_match(v, edam_id, edam_label) ==
    LET correct_label == get_label_for_id(v, edam_id)
        correct_id == get_id_for_label(v, edam_label)
    IN  IF validate_id(v, edam_id) /\ Truthy(correct_label)
        THEN <<edam_id, correct_label>>
        ELSE IF validate_label(v, edam_label) /\ Truthy(correct_id)
             THEN <<correct_id, edam_label>>
             ELSE <<edam_id, edam_label>>

(***************************************************************************)
(* EnhancedEDAMMatchingSystem: the constants of match_package_to_ontology.  *)
(***************************************************************************)
max_retries == 3
MAX_TOKENS == 30000
SAFE_TOKENS == 25000
SAFE_TOKENS_SYNONYMS_OFF == 29000
CHARS_PER_TOKEN == 4
\* best_confidence = -1
INITIAL_BEST_CONFIDENCE == -10
\* 'confidence_score': 0.1 of the fallback
FALLBACK_CONFIDENCE == 1

\* MAX_ONTOLOGY_CHARS, after the adjustment made when synonyms are off
MAX_ONTOLOGY_CHARS(use_synonyms) ==
    IF ~use_synonyms
    THEN SAFE_TOKENS_SYNONYMS_OFF * CHARS_PER_TOKEN
    ELSE SAFE_TOKENS * CHARS_PER_TOKEN

chunk_char_budget(use_synonyms, vignette) ==
    MAX_ONTOLOGY_CHARS(use_synonyms) - vignette

\* self.edam_df[self.edam_df['Obsolete'] == False]
NonObsolete(rows) == SelectSeq(rows, LAMBDA row : row.obsolete = FALSE)

\* the f-string of a cell
Str(x) == IF x = NaN THEN "nan" ELSE x

\* ontology_entries: one string per row of self.edam_df
ontology_entries(df, simple) ==
    [i \in 1..Len(df) |->
        IF simple
        THEN Str(df[i].label)
        ELSE Str(df[i].label) \o ": "
               \o (IF notna(df[i].definition) THEN df[i].definition ELSE "")]

(***************************************************************************)
(* Chunking (the loop over ontology_entries and the flush after it).       *)
(***************************************************************************)
\* len(entry) + 1, +1 for newline
EntryLen(entry) == Len(entry) + 1

\* faulty variant: the test ignores the entry about to be added
OverflowsBeforeAdding(current_len, entry_len, budget) == current_len > budget

\* current_len + entry_len > chunk_char_budget
Overflows(current_len, entry_len, budget) == current_len + entry_len > budget

\* one iteration of `for entry in ontology_entries`
ChunkStep(st, entry, budget) ==
    LET entry_len == EntryLen(entry)
        closed ==
            IF Overflows(st.current_len, entry_len, budget)
               /\ st.current_chunk # <<>>
            THEN [chunk_entries |-> Append(st.chunk_entries, st.current_chunk),
                  current_chunk |-> <<>>,
                  current_len |-> 0]
            ELSE st
    IN  [closed EXCEPT !.current_chunk = Append(@, entry),
                       !.current_len = @ + entry_len]

RECURSIVE ChunkLoop(_, _, _, _)
ChunkLoop(st, entries, i, budget) ==
    IF i > Len(entries) THEN st
    ELSE ChunkLoop(ChunkStep(st, entries[i], budget), entries, i + 1, budget)

\* faulty variant: the chunk being filled when the loop ends is dropped
FlushForgotten(st) == st.chunk_entries

\* `if current_chunk: chunk_entries.append(current_chunk)` after the loop
Flush(st) ==
    IF st.current_chunk # <<>>
    THEN Append(st.chunk_entries, st.current_chunk)
    ELSE st.chunk_entries

\* chunk_entries as built by match_package_to_ontology
ChunkEntries(entries, budget) ==
    Flush(ChunkLoop([chunk_entries |-> <<>>, current_chunk |-> <<>>,
                     current_len |-> 0],
                    entries, 1, budget))

(***************************************************************************)
(* One answer of the matcher: normalisation, validation, repair.           *)
(***************************************************************************)
OntologyMatch(edam_id, edam_label, confidence_score, reasoning, validated) ==
    [edam_id |-> edam_id, edam_label |-> edam_label,
     confidence_score |-> confidence_score, reasoning |-> reasoning,
     validated |-> validated]

\* Optional[OntologyMatch]: the value None
NoMatch == [is_none |-> TRUE]

\* faulty variant: the answer is not normalised before it is validated
ProcessResultNoNormalize(v, r) ==
    LET is_valid == validate_match(v, r.edam_id, r.edam_label)[1]
        corrected == fix_match(v, r.edam_id, r.edam_label)
        is_valid_fixed == validate_match(v, corrected[1], corrected[2])[1]
    IN  IF is_valid
        THEN OntologyMatch(r.edam_id, r.edam_label, r.confidence_score,
                           r.reasoning, TRUE)
        ELSE IF is_valid_fixed
             THEN OntologyMatch(corrected[1], corrected[2], r.confidence_score,
                                r.reasoning, TRUE)
             ELSE OntologyMatch(r.edam_id, r.edam_label, r.confidence_score,
                                r.reasoning, FALSE)

\* faulty variant: an answer beyond repair is recorded with confidence 0.0
ProcessResultDiscountsInvalid(v, r) ==
    LET norm == normalize_label_and_id(v, r.edam_label)
        n == IF Truthy(norm[1]) /\ Truthy(norm[2])
             THEN [r EXCEPT !.edam_label = norm[1], !.edam_id = norm[2]]
             ELSE r
        is_valid == validate_match(v, n.edam_id, n.edam_label)[1]
        corrected == fix_match(v, n.edam_id, n.edam_label)
        is_valid_fixed == validate_match(v, corrected[1], corrected[2])[1]
    IN  IF is_valid
        THEN OntologyMatch(n.edam_id, n.edam_label, r.confidence_score,
                           r.reasoning, TRUE)
        ELSE IF is_valid_fixed
             THEN OntologyMatch(corrected[1], corrected[2], r.confidence_score,
                                r.reasoning, TRUE)
             ELSE OntologyMatch(n.edam_id, n.edam_label, 0, r.reasoning, FALSE)

\* faulty variant: the repaired pair is taken for valid without a second
\* validation
ProcessResultTrustsRepair(v, r) ==
    LET norm == normalize_label_and_id(v, r.edam_label)
        n == IF Truthy(norm[1]) /\ Truthy(norm[2])
             THEN [r EXCEPT !.edam_label = norm[1], !.edam_id = norm[2]]
             ELSE r
        is_valid == validate_match(v, n.edam_id, n.edam_label)[1]
        corrected == fix_match(v, n.edam_id, n.edam_label)
    IN  IF is_valid
        THEN OntologyMatch(n.edam_id, n.edam_label, r.confidence_score,
                           r.reasoning, TRUE)
        ELSE OntologyMatch(corrected[1], corrected[2], r.confidence_score,
                           r.reasoning, TRUE)

\* the body of the try block between the call of self.matcher and the
\* construction of the OntologyMatch
ProcessResult(v, r) ==
    LET norm == normalize_label_and_id(v, r.edam_label)
        n == IF Truthy(norm[1]) /\ Truthy(norm[2])
             THEN [r EXCEPT !.edam_label = norm[1], !.edam_id = norm[2]]
             ELSE r
        is_valid == validate_match(v, n.edam_id, n.edam_label)[1]
        corrected == fix_match(v, n.edam_id, n.edam_label)
        is_valid_fixed == validate_match(v, corrected[1], corrected[2])[1]
    IN  IF is_valid
        THEN OntologyMatch(n.edam_id, n.edam_label, r.confidence_score,
                           r.reasoning, TRUE)
        ELSE IF is_valid_fixed
             THEN OntologyMatch(corrected[1], corrected[2], r.confidence_score,
                                r.reasoning, TRUE)
             ELSE OntologyMatch(n.edam_id, n.edam_label, r.confidence_score,
                                r.reasoning, FALSE)

(***************************************************************************)
(* Aggregation.                                                            *)
(***************************************************************************)
\* faulty variant: an equal confidence replaces the best match too
IsBetterOrEqual(confidence_score, best) == confidence_score >= best

\* match.confidence_score > best_confidence
IsBetter(confidence_score, best) == confidence_score > best

\* `if match.confidence_score > best_confidence: best_match = match ...`
Track(best, match) ==
    IF IsBetter(match.confidence_score, best.best_confidence)
    THEN [best_match |-> match, best_confidence |-> match.confidence_score]
    ELSE best

\* faulty variant: the fallback with confidence 0.0
FallbackConfidenceZero ==
    OntologyMatch("http://edamontology.org/topic_3365",
                  "Data architecture, analysis and design",
                  0,
                  "Error during matching: No valid match found in any chunk.",
                  FALSE)

\* the dictionary returned when no match was found
FallbackMatch ==
    OntologyMatch("http://edamontology.org/topic_3365",
                  "Data architecture, analysis and design",
                  FALLBACK_CONFIDENCE,
                  "Error during matching: No valid match found in any chunk.",
                  FALSE)

\* faulty variant: no fallback, best_match is returned even when None
ReturnBestOrNone(best) == best

\* `if best_match: return {...}` and the fallback after it
Return(best) ==
    IF best # NoMatch
    THEN OntologyMatch(best.edam_id, best.edam_label, best.confidence_score,
                       best.reasoning, best.validated)
    ELSE FallbackMatch

(***************************************************************************)
(* The retry loop.                                                         *)
(***************************************************************************)
\* the exceptions self.matcher raises, by their text
Exceptions == {"litellm.RateLimitError: rate limit reached",
               "You exceeded your current quota",
               "Connection timed out"}

\* what kind of failure of the oracle each one is
ErrorKind(e) ==
    IF e \in {"litellm.RateLimitError: rate limit reached",
              "You exceeded your current quota"}
    THEN "transient" ELSE "other"

\* faulty variant: every exception is taken for a capacity error
AnyErrorIsRateLimit(e) == TRUE

\* 'RateLimitError' in str(e) or 'quota' in str(e)
IsRateLimit(e) ==
    \/ e = "litellm.RateLimitError: rate limit reached"
    \/ e = "You exceeded your current quota"

\* a position of the two nested loops
Position(c, a) == [chunk_idx |-> c, attempt |-> a]

\* `break`: leave the attempt loop, go on with the next chunk
Break(c) == Position(c + 1, 0)

\* `continue`: the next attempt on the same chunk
Continue(c, a) == Position(c, a + 1)

\* faulty variant: one retry more
CanRetryOnceMore(a) == a < max_retries

\* `if attempt < max_retries - 1` (the loop is `for attempt in
\* range(max_retries)`)
CanRetry(a) == a < max_retries - 1

\* faulty variant: the `break` after a result is missing
AfterResultNoBreak(c, a) ==
    IF a < max_retries - 1 THEN Continue(c, a) ELSE Break(c)

\* `break  # Only use first successful attempt per chunk`
AfterResult(c, a) == Break(c)

\* 10 of `time.sleep(10 * (attempt + 1))`
BACKOFF_SECONDS == 10

\* faulty variant: the same wait before every retry
sleep_secondsConstant(a) == BACKOFF_SECONDS

\* the argument of time.sleep
sleep_seconds(a) == BACKOFF_SECONDS * (a + 1)

\* the seconds the except block sleeps before it goes on: those of
\* time.sleep ahead of `continue`, and none ahead of `break`
Slept(e, a) == IF IsRateLimit(e) /\ CanRetry(a) THEN sleep_seconds(a) ELSE 0

\* the except block
AfterException(e, c, a) ==
    IF IsRateLimit(e) /\ CanRetry(a) THEN Continue(c, a) ELSE Break(c)

(***************************************************************************)
(* Inputs.                                                                 *)
(***************************************************************************)
\* tables of at most n rows of EDAM_CSV, in any order
RECURSIVE Tables(_)
Tables(n) ==
    IF n = 0 THEN {<<>>}
    ELSE LET shorter == Tables(n - 1)
         IN  shorter \cup
             {Append(t, EDAM_CSV[i]) :
                 t \in {u \in shorter : Len(u) = n - 1},
                 i \in DOMAIN EDAM_CSV}

\* ... with every Class ID at most once
AllTables ==
    {t \in Tables(MaxTerms) :
        \A i, j \in DOMAIN t : t[i].id = t[j].id => i = j}

\* the first n rows of EDAM_CSV, n up to MaxTerms
PrefixTables ==
    {SubSeq(EDAM_CSV, 1, n) : n \in 0..(IF MaxTerms < Len(EDAM_CSV)
                                        THEN MaxTerms ELSE Len(EDAM_CSV))}

\* answers of the oracle: the pair of a term, and an id with a label the
\* oracle made up (repaired when the id is in the table that was loaded,
\* beyond repair when it is not)
OracleAnswers == {<<"topic_0003", "Topic">>,
                  <<"data_0006", "Some Random Label">>}

\* confidence scores the oracle reports (0.3, 0.5, 0.9)
Confidences == {3, 5, 9}

OracleReasoning == "closest term"

\* arguments validate_match is tried on
IdInputs == {EDAM_CSV[i].id : i \in DOMAIN EDAM_CSV}
                \cup {"http://edamontology.org/topic_9999"}

LabelInputs == {EDAM_CSV[i].label : i \in DOMAIN EDAM_CSV}
                \cup {"Study", "GEX", "Data", "Topic area", "Some Random Label"}

NoCall == <<>>

(***************************************************************************)
(* The state after construction of the system, before an item is matched.  *)
(***************************************************************************)
\* batch_size: int = 5000
BATCH_SIZE == 5000

\* process_packages_in_batches has not been called; `input` is what it will
\* be called with
NoBatchRun(input) ==
    /\ packages_data = input.packages_data
    /\ batch_size = input.batch_size
    /\ run = "CREATED"
    /\ raised = None
    /\ batch_num = 0
    /\ batch = <<>>
    /\ pkg_idx = 0
    /\ batch_results = <<>>
    /\ all_results = <<>>
    /\ files = EmptyDict
    /\ batches = <<>>
    /\ matched = <<>>

InitWith(tables, budgets, modes) ==
    \E rows \in tables, use_synonyms \in BOOLEAN, budget \in budgets :
        /\ validator = EDAMValidator(rows, use_synonyms)
        /\ edam_df = NonObsolete(rows)
        /\ simple_mode \in modes
        /\ vignette_chars = MAX_ONTOLOGY_CHARS(use_synonyms) - budget
        /\ pc = "PENDING"
        /\ chunk_entries = <<>>
        /\ chunk_idx = 0
        /\ attempt = 0
        /\ best_match = NoMatch
        /\ best_confidence = INITIAL_BEST_CONFIDENCE
        /\ result = NoMatch
        /\ log = <<>>
        /\ v_in = NoCall
        /\ v_out = NoCall
        /\ NoBatchRun([packages_data |-> <<>>, batch_size |-> BATCH_SIZE])

\* descriptions that leave a budget of 15 characters, and of 100000
Init == InitWith(PrefixTables, {15, SAFE_TOKENS * CHARS_PER_TOKEN}, BOOLEAN)

(***************************************************************************)
(* match_package_to_ontology.                                              *)
(***************************************************************************)
\* move to a position of the loops; past the last chunk the function
\* returns
Goto(pos, chunks, best) ==
    /\ chunk_idx' = pos.chunk_idx
    /\ attempt' = pos.attempt
    /\ IF pos.chunk_idx > Len(chunks)
       THEN pc' = "AGGREGATED" /\ result' = Return(best)
       ELSE pc' = "QUERYING" /\ result' = result

\* faulty variant: the aggregation of an item starts from the match of the
\* item before it in the batch
InitialBestOfPreviousItem ==
    IF batch_results = <<>>
    THEN [best_match |-> NoMatch, best_confidence |-> INITIAL_BEST_CONFIDENCE]
    ELSE [best_match |-> batch_results[Len(batch_results)].edam_match,
          best_confidence |->
              batch_results[Len(batch_results)].edam_match.confidence_score]

\* best_match = None; best_confidence = -1 at the entry of the function
InitialBest ==
    [best_match |-> NoMatch, best_confidence |-> INITIAL_BEST_CONFIDENCE]

\* from the entry of the function to the first call of the matcher
Start ==
    /\ pc = "PENDING"
    /\ LET chunks == ChunkEntries(
                        ontology_entries(edam_df, simple_mode),
                        chunk_char_budget(validator.use_synonyms,
                                          vignette_chars))
       IN  /\ chunk_entries' = chunks
           /\ best_match' = InitialBest.best_match
           /\ best_confidence' = InitialBest.best_confidence
           /\ Goto(Position(1, 0), chunks, InitialBest.best_match)
    /\ UNCHANGED <<validator, edam_df, simple_mode, vignette_chars, log,
                   v_in, v_out,
                   batch_vars>>

\* self.matcher returns a result: the rest of the try block
OracleReturns(answer, confidence) ==
    /\ pc = "QUERYING"
    /\ LET r == [edam_id |-> answer[1], edam_label |-> answer[2],
                 confidence_score |-> confidence,
                 reasoning |-> OracleReasoning]
           match == ProcessResult(validator, r)
           best == Track([best_match |-> best_match,
                          best_confidence |-> best_confidence], match)
       IN  /\ best_match' = best.best_match
           /\ best_confidence' = best.best_confidence
           /\ log' = Append(log, [chunk |-> chunk_idx, attempt |-> attempt,
                                  outcome |-> "result", match |-> match,
                                  answer |-> <<answer[1], answer[2],
                                               confidence>>,
                                  slept |-> 0])
           /\ Goto(AfterResult(chunk_idx, attempt), chunk_entries,
                   best.best_match)
    /\ UNCHANGED <<validator, edam_df, simple_mode, vignette_chars,
                   chunk_entries, v_in, v_out,
                   batch_vars>>

\* self.matcher raises: the except block
OracleRaises(e) ==
    /\ pc = "QUERYING"
    /\ log' = Append(log, [chunk |-> chunk_idx, attempt |-> attempt,
                           outcome |-> ErrorKind(e), match |-> NoMatch,
                           answer |-> NoCall, slept |-> Slept(e, attempt)])
    /\ Goto(AfterException(e, chunk_idx, attempt), chunk_entries, best_match)
    /\ UNCHANGED <<validator, edam_df, simple_mode, vignette_chars,
                   chunk_entries, best_match, best_confidence, v_in, v_out,
                   batch_vars>>

Next ==
    \/ Start
    \/ \E answer \in OracleAnswers, confidence \in Confidences :
          OracleReturns(answer, confidence)
    \/ \E e \in Exceptions : OracleRaises(e)

Spec == Init /\ [][Next]_vars

\* The same steps under fairness: every call of the matcher answers or
\* raises in finite time (the request timeout of the transport).  The items
\* are matched in simple mode against a budget of 15 characters.
InitFair == InitWith(PrefixTables, {15}, {TRUE})

FairSpec == InitFair /\ [][Next]_vars /\ WF_vars(Next)

(***************************************************************************)
(* The same steps with an oracle whose confidence_score is any float: the  *)
(* output field of the signature is typed float and nothing checks it.     *)
(***************************************************************************)
\* confidence scores the oracle may report (-0.5, 0.5, 1.5)
ReportedConfidences == {-5, 5, 15}

NextAnyConfidence ==
    \/ Start
    \/ \E answer \in OracleAnswers, confidence \in ReportedConfidences :
          OracleReturns(answer, confidence)
    \/ \E e \in Exceptions : OracleRaises(e)

SpecAnyConfidence == InitFair /\ [][NextAnyConfidence]_vars

(***************************************************************************)
(* Chunking alone, over all tables and budgets.                            *)
(***************************************************************************)
InitChunk == InitWith(AllTables, (0 - 1)..MaxBudget, BOOLEAN)

NextChunk == Start

SpecChunk == InitChunk /\ [][NextChunk]_vars

(***************************************************************************)
(* The validator alone, over all tables.                                   *)
(***************************************************************************)
InitValidator == InitWith(AllTables, {0}, {TRUE})

\* a call of validator.validate_match(edam_id, edam_label)
Validate(edam_id, edam_label) ==
    /\ v_in = NoCall
    /\ v_in' = <<edam_id, edam_label>>
    /\ v_out' = validate_match(validator, edam_id, edam_label)
    /\ UNCHANGED <<validator, edam_df, simple_mode, vignette_chars, pc,
                   chunk_entries, chunk_idx, attempt, best_match,
                   best_confidence, result, log,
                   batch_vars>>

NextValidator ==
    \E edam_id \in IdInputs, edam_label \in LabelInputs :
        Validate(edam_id, edam_label)

SpecValidator == InitValidator /\ [][NextValidator]_vars

(***************************************************************************)
(* fix_match alone, over all tables.                                       *)
(***************************************************************************)
\* a call of validator.fix_match(edam_id, edam_label)
Fix(edam_id, edam_label) ==
    /\ v_in = NoCall
    /\ v_in' = <<edam_id, edam_label>>
    /\ v_out' = fix_match(validator, edam_id, edam_label)
    /\ UNCHANGED <<validator, edam_df, simple_mode, vignette_chars, pc,
                   chunk_entries, chunk_idx, attempt, best_match,
                   best_confidence, result, log,
                   batch_vars>>

NextRepair ==
    \E edam_id \in IdInputs, edam_label \in LabelInputs :
        Fix(edam_id, edam_label)

SpecRepair == InitValidator /\ [][NextRepair]_vars

(***************************************************************************)
(* The lookup of one string, over all tables: it is normalised and         *)
(* checked as a label.                                                     *)
(***************************************************************************)
\* validator.normalize_label_and_id(s) and validator.validate_label(s)
Lookup(s) ==
    /\ v_in = NoCall
    /\ v_in' = <<s>>
    /\ v_out' = [normalized |-> normalize_label_and_id(validator, s),
                 is_label |-> validate_label(validator, s)]
    /\ UNCHANGED <<validator, edam_df, simple_mode, vignette_chars, pc,
                   chunk_entries, chunk_idx, attempt, best_match,
                   best_confidence, result, log,
                   batch_vars>>

NextLookup == \E s \in LabelInputs : Lookup(s)

SpecLookup == InitValidator /\ [][NextLookup]_vars

(***************************************************************************)
(* One answer of the matcher alone, over all tables: what is recorded for  *)
(* the chunk.                                                              *)
(***************************************************************************)
\* self.matcher returned (edam_id, edam_label, confidence_score)
Answer(edam_id, edam_label, confidence) ==
    /\ v_in = NoCall
    /\ v_in' = <<edam_id, edam_label, confidence>>
    /\ v_out' = ProcessResult(validator,
                              [edam_id |-> edam_id, edam_label |-> edam_label,
                               confidence_score |-> confidence,
                               reasoning |-> OracleReasoning])
    /\ UNCHANGED <<validator, edam_df, simple_mode, vignette_chars, pc,
                   chunk_entries, chunk_idx, attempt, best_match,
                   best_confidence, result, log,
                   batch_vars>>

NextAnswer ==
    \E edam_id \in IdInputs, edam_label \in LabelInputs,
       confidence \in Confidences :
        Answer(edam_id, edam_label, confidence)

SpecAnswer == InitValidator /\ [][NextAnswer]_vars

(***************************************************************************)
(* process_packages_in_batches.  A package is a dictionary; its            *)
(* description is a string, or None for a JSON null.                       *)
(***************************************************************************)
PackagePool ==
    { [name |-> "limma", description |-> "Linear models for microarray data",
       version |-> "3.58.1"],
      [name |-> "edgeR", description |-> "Empirical analysis of digital gene expression"],
      [name |-> "DESeq2"],
      [description |-> "A package without a name"],
      [name |-> "affy", description |-> None] }

\* the lists of at most MaxPackages packages
PackageLists ==
    UNION {[1..n -> PackagePool] : n \in 0..MaxPackages}

\* the table the batches are matched against
BatchTable == SubSeq(EDAM_CSV, 1, 1)

\* the confidence the oracle reports in the batch runs (0.9)
BatchConfidences == {9}

\* math.ceil(a / b), b > 0
ceil(a, b) == IF a % b = 0 THEN a \div b ELSE (a \div b) + 1

min(a, b) == IF a < b THEN a ELSE b

\* faulty variant: the batches are counted with floor division
num_batchesFloor(total_packages, size) == total_packages \div size

\* num_batches = math.ceil(total_packages / self.batch_size)
num_batches(total_packages, size) == ceil(total_packages, size)

start_idx(n, size) == n * size

end_idx(n, size, total_packages) ==
    min(start_idx(n, size) + size, total_packages)

\* batch = packages_data[start_idx:end_idx]
Batch(packages, n, size) ==
    SubSeq(packages, start_idx(n, size) + 1, end_idx(n, size, Len(packages)))

\* 'name' not in package or 'description' not in package
missing_field(package) ==
    "name" \notin DOMAIN package \/ "description" \notin DOMAIN package

\* faulty variant: `break` in the place of `continue`
AfterSkipBreaks(idx, b) == Len(b)

\* `continue`: the inner loop goes on with the next package of the batch
AfterSkip(idx, b) == idx + 1

\* faulty variant: the records of the batch replace those collected so far
extendReplaces(list, items) == items

\* list.extend(items)
extend(list, items) == list \o items

\* faulty variant: the record is built from the name and the description
package_resultNameAndDescription(package, match) ==
    [name |-> package.name, description |-> package.description,
     edam_match |-> match]

\* package_result = package.copy(); package_result['edam_match'] = match
package_result(package, match) == Put(package, "edam_match", match)

\* faulty variant: one name for the files of all batches
batch_output_fileUnnumbered(n) == "batch_results.json"

\* faulty variant: the files are numbered from 0
batch_output_fileZeroBased(n) == "batch_" \o ToString(n) \o "_results.json"

\* f'batch_{batch_num + 1}_results.json'
batch_output_file(n) == "batch_" \o ToString(n + 1) \o "_results.json"

\* no call of match_package_to_ontology is in progress
MatcherIdle ==
    /\ pc = "IDLE"
    /\ vignette_chars = 0
    /\ chunk_entries = <<>>
    /\ chunk_idx = 0
    /\ attempt = 0
    /\ best_match = NoMatch
    /\ best_confidence = INITIAL_BEST_CONFIDENCE
    /\ result = NoMatch
    /\ log = <<>>

\* the return of match_package_to_ontology: its locals are gone
LeaveMatcher ==
    /\ pc' = "IDLE"
    /\ vignette_chars' = 0
    /\ chunk_entries' = <<>>
    /\ chunk_idx' = 0
    /\ attempt' = 0
    /\ best_match' = NoMatch
    /\ best_confidence' = INITIAL_BEST_CONFIDENCE
    /\ result' = NoMatch
    /\ log' = <<>>

\* the system as constructed by default (synonyms off, simple mode), and
\* the list of packages and the batch size of the run
InitBatch ==
    \E packages \in PackageLists, size \in 1..MaxBatchSize :
        /\ validator = EDAMValidator(BatchTable, FALSE)
        /\ edam_df = NonObsolete(BatchTable)
        /\ simple_mode = TRUE
        /\ MatcherIdle
        /\ v_in = NoCall
        /\ v_out = NoCall
        /\ NoBatchRun([packages_data |-> packages, batch_size |-> size])

\* the head of the outer loop: batch n is taken, or the function returns
EnterBatch(n) ==
    IF n < num_batches(Len(packages_data), batch_size)
    THEN /\ run' = "BATCH"
         /\ batch_num' = n
         /\ batch' = Batch(packages_data, n, batch_size)
         /\ pkg_idx' = 0
         /\ batch_results' = <<>>
         /\ batches' = Append(batches, Batch(packages_data, n, batch_size))
    ELSE /\ run' = "RETURNED"
         /\ UNCHANGED <<batch_num, batch, pkg_idx, batch_results, batches>>

\* the call of process_packages_in_batches, up to the first batch
ProcessPackagesInBatches ==
    /\ run = "CREATED"
    /\ EnterBatch(0)
    /\ UNCHANGED <<validator, edam_df, simple_mode, vignette_chars, pc,
                   chunk_entries, chunk_idx, attempt, best_match,
                   best_confidence, result, log, v_in, v_out, packages_data,
                   batch_size, raised, all_results, files, matched>>

\* the head of the inner loop: the next package of the batch is skipped,
\* or match_package_to_ontology is called for it; len(package_description),
\* ahead of the try block, raises TypeError when the description is None
NextPackage ==
    /\ run = "BATCH"
    /\ pc = "IDLE"
    /\ pkg_idx < Len(batch)
    /\ LET package == batch[pkg_idx + 1]
           position == start_idx(batch_num, batch_size) + pkg_idx + 1
       IN  IF missing_field(package)
           THEN /\ pkg_idx' = AfterSkip(pkg_idx, batch)
                /\ UNCHANGED <<run, raised, matched, pc, vignette_chars>>
           ELSE /\ matched' = Append(matched, position)
                /\ IF package.description = None
                   THEN /\ run' = "RAISED"
                        /\ raised' = "TypeError"
                        /\ UNCHANGED <<pc, vignette_chars>>
                   ELSE /\ pc' = "PENDING"
                        /\ vignette_chars' = Len(package.description)
                        /\ UNCHANGED <<run, raised>>
                /\ UNCHANGED pkg_idx
    /\ UNCHANGED <<validator, edam_df, simple_mode, chunk_entries, chunk_idx,
                   attempt, best_match, best_confidence, result, log, v_in,
                   v_out, packages_data, batch_size, batch_num, batch,
                   batch_results, all_results, files, batches>>

\* match_package_to_ontology returns: the record of the package is added
\* to those of the batch
MatchReturns ==
    /\ run = "BATCH"
    /\ pc = "AGGREGATED"
    /\ batch_results' = Append(batch_results,
                               package_result(batch[pkg_idx + 1], result))
    /\ pkg_idx' = pkg_idx + 1
    /\ LeaveMatcher
    /\ UNCHANGED <<validator, edam_df, simple_mode, v_in, v_out,
                   packages_data, batch_size, run, raised, batch_num, batch,
                   all_results, files, batches, matched>>

\* the end of the inner loop: the records of the batch are added to the
\* result and written to the file of the batch (written = FALSE: open
\* raises OSError), and the outer loop goes on
EndBatch(written) ==
    /\ run = "BATCH"
    /\ pc = "IDLE"
    /\ pkg_idx >= Len(batch)
    /\ all_results' = extend(all_results, batch_results)
    /\ IF written
       THEN /\ files' = Put(files, batch_output_file(batch_num), batch_results)
            /\ raised' = raised
            /\ EnterBatch(batch_num + 1)
       ELSE /\ run' = "RAISED"
            /\ raised' = "OSError"
            /\ UNCHANGED <<files, batch_num, batch, pkg_idx, batch_results,
                           batches>>
    /\ UNCHANGED <<validator, edam_df, simple_mode, vignette_chars, pc,
                   chunk_entries, chunk_idx, attempt, best_match,
                   best_confidence, result, log, v_in, v_out, packages_data,
                   batch_size, matched>>

NextBatch ==
    \/ ProcessPackagesInBatches
    \/ NextPackage
    \/ Start
    \/ \E answer \in OracleAnswers, confidence \in BatchConfidences :
          OracleReturns(answer, confidence)
    \/ \E e \in Exceptions : OracleRaises(e)
    \/ MatchReturns
    \/ \E written \in BOOLEAN : EndBatch(written)

SpecBatch == InitBatch /\ [][NextBatch]_vars

(***************************************************************************)
(* search_relevant_terms, of EDAMMatchingSystem and of                     *)
(* EnhancedEDAMMatchingSystem.                                             *)
(***************************************************************************)
\* the Synonyms cell as it is in the table: the pieces joined by '|'
RECURSIVE SynonymsCell(_)
SynonymsCell(pieces) ==
    IF Len(pieces) = 1 THEN pieces[1]
    ELSE pieces[1] \o "|" \o SynonymsCell(Tail(pieces))

\* package descriptions the terms are searched for
Descriptions == {"Analysis of gene expression data",
                 "A study of Topic data",
                 "Peak calling"}

\* set(s.lower().split()) on the texts of the table and the descriptions
lower_split(s) ==
    CASE s = "" -> {}
      [] s = "Topic" -> {"topic"}
      [] s = "A category" -> {"a", "category"}
      [] s = "Old topic" -> {"old", "topic"}
      [] s = "Topic area" -> {"topic", "area"}
      [] s = "Analysis" -> {"analysis"}
      [] s = "Study ||GEX" -> {"study", "||gex"}
      [] s = "Study" -> {"study"}
      [] s = "GEX" -> {"gex"}
      [] s = "Data" -> {"data"}
      [] s = "Information" -> {"information"}
      [] s = "Datum|Study" -> {"datum|study"}
      [] s = "Datum" -> {"datum"}
      [] s = "Gene expression" -> {"gene", "expression"}
      [] s = " GEX|Data" -> {"gex|data"}
      [] s = "Format" -> {"format"}
      [] s = "Annotation" -> {"annotation"}
      [] s = "Indexing" -> {"indexing"}
      [] s = "Tool" -> {"tool"}
      [] s = "Database" -> {"database"}
      [] s = "Proteins" -> {"proteins"}
      [] s = "Phylogeny" -> {"phylogeny"}
      [] s = "Operation" -> {"operation"}
      [] s = "Ontology" -> {"ontology"}
      [] s = "Analysis of gene expression data" ->
            {"analysis", "of", "gene", "expression", "data"}
      [] s = "A study of Topic data" -> {"a", "study", "of", "topic", "data"}
      [] s = "Peak calling" -> {"peak", "calling"}

\* row[column] if pd.notna(row[column]) else ""
OrEmpty(x) == IF notna(x) THEN x ELSE ""

\* set(f"{label} {definition} {synonyms}".lower().split())
term_words(row) ==
    lower_split(OrEmpty(row.label))
        \cup lower_split(OrEmpty(row.definition))
        \cup (IF notna(row.synonyms)
              THEN lower_split(SynonymsCell(row.synonyms)) ELSE {})

\* overlap = len(description_words & term_words)
overlap(description, row) ==
    Cardinality(lower_split(description) \cap term_words(row))

\* score = overlap / len(description_words | term_words), as a fraction
score(description, row) ==
    [num |-> overlap(description, row),
     den |-> Cardinality(lower_split(description) \cup term_words(row))]

\* a > b on fractions with positive denominators
Greater(a, b) == a.num * b.den > b.num * a.den

\* formatted_desc of EDAMMatchingSystem.search_relevant_terms
formatted_desc(row) ==
    row.label
        \o (IF OrEmpty(row.definition) # ""
            THEN ": " \o row.definition ELSE "")
        \o (IF notna(row.synonyms) /\ SynonymsCell(row.synonyms) # ""
            THEN " (Synonyms: " \o SynonymsCell(row.synonyms) \o ")" ELSE "")

\* relevant_terms after the loop over the rows: the terms with an overlap,
\* in the order of the table
RECURSIVE relevant_terms(_, _, _)
relevant_terms(df, description, i) ==
    IF i > Len(df) THEN <<>>
    ELSE (IF overlap(description, df[i]) > 0
          THEN <<[edam_id |-> df[i].id,
                  description |-> formatted_desc(df[i]),
                  score |-> score(description, df[i])]>>
          ELSE <<>>)
         \o relevant_terms(df, description, i + 1)

\* one term put into a list sorted by descending score, behind the terms
\* of equal score (the sort is stable)
RECURSIVE Insert(_, _)
Insert(term, sorted) ==
    IF sorted = <<>> THEN <<term>>
    ELSE IF Greater(term.score, Head(sorted).score)
         THEN <<term>> \o sorted
         ELSE <<Head(sorted)>> \o Insert(term, Tail(sorted))

\* sorted(items, key=score, reverse=True)
RECURSIVE sorted_by_score(_)
sorted_by_score(items) ==
    IF items = <<>> THEN <<>>
    ELSE Insert(items[Len(items)],
                sorted_by_score(SubSeq(items, 1, Len(items) - 1)))

\* the slice taken one item too long
FirstKOffByOne(items, top_k) == SubSeq(items, 1, min(top_k + 1, Len(items)))

\* items[:top_k], top_k >= 0
FirstK(items, top_k) == SubSeq(items, 1, min(top_k, Len(items)))

\* the dictionary returned, as the list of its (key, value) items
Candidates(items) ==
    [i \in DOMAIN items |->
        [edam_id |-> items[i].edam_id, description |-> items[i].description]]

\* EDAMMatchingSystem.search_relevant_terms
search_relevant_terms(df, package_description, top_k) ==
    Candidates(FirstK(
        sorted_by_score(relevant_terms(df, package_description, 1)), top_k))

\* max_overlap: the overlap with the words of the term, or with those of
\* one synonym if that is larger
max_overlap(description, row) ==
    LET all_synonyms ==
            IF notna(row.synonyms)
            THEN {strip(row.synonyms[k]) : k \in DOMAIN row.synonyms} \ {""}
            ELSE {}
        overlaps ==
            {overlap(description, row)} \cup
            {Cardinality(lower_split(description) \cap lower_split(syn)) :
                syn \in all_synonyms}
    IN  CHOOSE m \in overlaps : \A o \in overlaps : o <= m

\* relevant_terms of EnhancedEDAMMatchingSystem.search_relevant_terms
RECURSIVE enhanced_relevant_terms(_, _, _)
enhanced_relevant_terms(df, description, i) ==
    IF i > Len(df) THEN <<>>
    ELSE (IF max_overlap(description, df[i]) > 0
          THEN <<[edam_id |-> df[i].id,
                  description |->
                     IF OrEmpty(df[i].definition) # ""
                     THEN OrEmpty(df[i].label) \o ": " \o df[i].definition
                     ELSE OrEmpty(df[i].label)]>>
          ELSE <<>>)
         \o enhanced_relevant_terms(df, description, i + 1)

\* EnhancedEDAMMatchingSystem.search_relevant_terms
enhanced_search_relevant_terms(df, description, top_k) ==
    FirstK(enhanced_relevant_terms(df, description, 1), top_k)

\* a call of search_relevant_terms of the basic system
Search(description, top_k) ==
    /\ v_in = NoCall
    /\ v_in' = <<"EDAMMatchingSystem", description, top_k>>
    /\ v_out' = search_relevant_terms(edam_df, description, top_k)
    /\ UNCHANGED <<validator, edam_df, simple_mode, vignette_chars, pc,
                   chunk_entries, chunk_idx, attempt, best_match,
                   best_confidence, result, log, batch_vars>>

\* a call of search_relevant_terms of the enhanced system
EnhancedSearch(description, top_k) ==
    /\ v_in = NoCall
    /\ v_in' = <<"EnhancedEDAMMatchingSystem", description, top_k>>
    /\ v_out' = enhanced_search_relevant_terms(edam_df, description, top_k)
    /\ UNCHANGED <<validator, edam_df, simple_mode, vignette_chars, pc,
                   chunk_entries, chunk_idx, attempt, best_match,
                   best_confidence, result, log, batch_vars>>

NextSearch ==
    \E description \in Descriptions, top_k \in 0..MaxTopK :
        \/ Search(description, top_k)
        \/ EnhancedSearch(description, top_k)

SpecSearch == InitValidator /\ [][NextSearch]_vars

(***************************************************************************)
(* EDAMMatchingSystem.match_package_to_ontology: the candidates come from  *)
(* search_relevant_terms, or from preprocess_edam_terms when the search    *)
(* finds none, and the matcher is called once.                             *)
(***************************************************************************)
\* a longer file: EDAM_CSV followed by more terms of the three categories
BASIC_CSV ==
    EDAM_CSV \o
    << Row("operation_0226", "Annotation", NaN, NaN, FALSE),
       Row("operation_0227", "Indexing", NaN, NaN, FALSE),
       Row("data_0007", "Tool", NaN, NaN, FALSE),
       Row("data_0581", "Database", NaN, NaN, FALSE),
       Row("topic_0078", "Proteins", NaN, NaN, FALSE),
       Row("topic_0084", "Phylogeny", NaN, NaN, FALSE),
       Row("operation_0004", "Operation", NaN, NaN, FALSE),
       Row("data_0582", "Ontology", NaN, NaN, FALSE) >>

\* the files the basic system is built over: the first n rows of BASIC_CSV
BasicTables == {SubSeq(BASIC_CSV, 1, n) : n \in 0..Len(BASIC_CSV)}

\* top_k=10 of the two calls of match_package_to_ontology
SEARCH_TOP_K == 10
DEFAULT_TOP_K == 10

\* confidence_score=0.5 and 0.3 of the except block
FIRST_CANDIDATE_CONFIDENCE == 5
NO_CANDIDATE_CONFIDENCE == 3

Categories == <<"topic_", "operation_", "data_">>

\* self.edam_df['Class ID'].str.contains(category, na=False) on the ids of
\* BASIC_CSV
str_contains(id, category) ==
    CASE category = "topic_" ->
            id \in {"topic_0003", "topic_0001", "topic_0203", "topic_0078",
                    "topic_0084"}
      [] category = "operation_" ->
            id \in {"operation_2945", "operation_0226", "operation_0227",
                    "operation_0004"}
      [] category = "data_" ->
            id \in {"data_0006", "data_0007", "data_0581", "data_0582"}

\* faulty variant: the whole category, not its head
category_termsAll(df, category, top_k) ==
    SelectSeq(df, LAMBDA row : notna(row.id) /\ str_contains(row.id, category))

\* category_terms: the rows of one category, .head(top_k // 3)
category_terms(df, category, top_k) ==
    FirstK(SelectSeq(df, LAMBDA row :
                            notna(row.id) /\ str_contains(row.id, category)),
           top_k \div 3)

\* candidates[edam_id] = description for the rows of one category
category_candidates(rows) ==
    [i \in DOMAIN rows |->
        [edam_id |-> rows[i].id, description |-> formatted_desc(rows[i])]]

\* EDAMMatchingSystem.preprocess_edam_terms
preprocess_edam_terms(df, top_k) ==
    category_candidates(category_terms(df, Categories[1], top_k))
        \o category_candidates(category_terms(df, Categories[2], top_k))
        \o category_candidates(category_terms(df, Categories[3], top_k))

\* the candidates of match_package_to_ontology
match_candidates(df, package_description) ==
    LET candidates == search_relevant_terms(df, package_description,
                                            SEARCH_TOP_K)
    IN  IF candidates = <<>>
        THEN preprocess_edam_terms(df, DEFAULT_TOP_K)
        ELSE candidates

\* first_desc.split(':')[0] if ':' in first_desc else first_desc, for the
\* description of a row whose label has no colon
first_label(row) ==
    IF OrEmpty(row.definition) # "" THEN row.label
    ELSE IF notna(row.synonyms) /\ SynonymsCell(row.synonyms) # ""
         THEN row.label \o " (Synonyms"
         ELSE row.label

\* the OntologyMatch of the except block
except_match(df, candidates) ==
    IF candidates # <<>>
    THEN LET first_id == candidates[1].edam_id
             row == df[CHOOSE i \in DOMAIN df : df[i].id = first_id]
         IN  [edam_id |-> first_id,
              edam_label |-> first_label(row),
              confidence_score |-> FIRST_CANDIDATE_CONFIDENCE,
              reasoning |-> "DSPy failed, using top candidate"]
    ELSE [edam_id |-> "http://edamontology.org/topic_3365",
          edam_label |-> "Data architecture, analysis and design",
          confidence_score |-> NO_CANDIDATE_CONFIDENCE,
          reasoning |-> "DSPy failed and no candidates found"]

InitBasic == InitWith(BasicTables, {0}, {TRUE})

\* from the entry of the function to the call of self.matcher
BasicMatch(package_description) ==
    /\ pc = "PENDING"
    /\ v_in' = <<package_description>>
    /\ v_out' = match_candidates(edam_df, package_description)
    /\ pc' = "QUERYING"
    /\ UNCHANGED <<validator, edam_df, simple_mode, vignette_chars,
                   chunk_entries, chunk_idx, attempt, best_match,
                   best_confidence, result, log, batch_vars>>

\* self.matcher returns: the OntologyMatch of the try block
BasicOracleReturns(answer, confidence) ==
    /\ pc = "QUERYING"
    /\ result' = [edam_id |-> answer[1], edam_label |-> answer[2],
                  confidence_score |-> confidence,
                  reasoning |-> OracleReasoning]
    /\ pc' = "RETURNED"
    /\ UNCHANGED <<validator, edam_df, simple_mode, vignette_chars,
                   chunk_entries, chunk_idx, attempt, best_match,
                   best_confidence, log, v_in, v_out, batch_vars>>

\* self.matcher raises: the except block
BasicOracleRaises ==
    /\ pc = "QUERYING"
    /\ result' = except_match(edam_df, v_out)
    /\ pc' = "RETURNED"
    /\ UNCHANGED <<validator, edam_df, simple_mode, vignette_chars,
                   chunk_entries, chunk_idx, attempt, best_match,
                   best_confidence, log, v_in, v_out, batch_vars>>

NextBasic ==
    \/ \E package_description \in Descriptions :
          BasicMatch(package_description)
    \/ \E answer \in OracleAnswers, confidence \in BatchConfidences :
          BasicOracleReturns(answer, confidence)
    \/ BasicOracleRaises

SpecBasic == InitBasic /\ [][NextBasic]_vars

(***************************************************************************)
(* Properties of the chunking.                                             *)
(***************************************************************************)
RECURSIVE Flatten(_)
Flatten(chunks) ==
    IF chunks = <<>> THEN <<>> ELSE Head(chunks) \o Flatten(Tail(chunks))

RECURSIVE SumLen(_)
SumLen(chunk) ==
    IF chunk = <<>> THEN 0 ELSE Len(Head(chunk)) + SumLen(Tail(chunk))

\* the sum of the entry lengths, with one separator per entry
RunningLength(chunk) == SumLen(chunk) + Len(chunk)

EntriesOfItem == ontology_entries(edam_df, simple_mode)

BudgetOfItem == chunk_char_budget(validator.use_synonyms, vignette_chars)

\* the length of the longest entry (0 when there is none)
LongestEntry ==
    IF EntriesOfItem = <<>> THEN 0
    ELSE LET lens == {Len(EntriesOfItem[i]) : i \in DOMAIN EntriesOfItem}
         IN  CHOOSE m \in lens : \A n \in lens : n <= m

Chunked == pc # "PENDING"

\* C1: with a budget at least as large as the longest entry, the chunks
\* concatenated in order are the entry list itself (every entry once, in
\* order, whole), and no chunk is empty.
C1_ChunkCompleteness ==
    (Chunked /\ BudgetOfItem >= LongestEntry) =>
        /\ Flatten(chunk_entries) = EntriesOfItem
        /\ \A k \in DOMAIN chunk_entries : chunk_entries[k] # <<>>

\* C1 witness: a budget no smaller than the longest entry cut the entries
\* into several chunks, one of them with several entries.
C1_Witness ==
    /\ Chunked /\ BudgetOfItem >= LongestEntry
    /\ Len(chunk_entries) >= 2
    /\ \E k \in DOMAIN chunk_entries : Len(chunk_entries[k]) >= 2

\* every chunk is within the budget, and every chunk but the last was closed
\* because the entry after it did not fit
WithinBudgetAndMaximal ==
    /\ \A k \in DOMAIN chunk_entries :
          RunningLength(chunk_entries[k]) <= BudgetOfItem
    /\ \A k \in DOMAIN chunk_entries :
          k < Len(chunk_entries) =>
             RunningLength(chunk_entries[k])
                + Len(chunk_entries[k + 1][1]) + 1 > BudgetOfItem

Aggregated == pc = "AGGREGATED"

\* the matches produced for the chunks, in the order of the calls
ResultsOf(l) == SelectSeq(l, LAMBDA call : call.outcome = "result")

MatchesOf(l) == [i \in 1..Len(ResultsOf(l)) |-> ResultsOf(l)[i].match]

\* the aggregation run over a sequence of matches
RECURSIVE TrackAll(_, _, _)
TrackAll(best, ms, i) ==
    IF i > Len(ms) THEN best ELSE TrackAll(Track(best, ms[i]), ms, i + 1)

Aggregate(ms) ==
    Return(TrackAll([best_match |-> NoMatch,
                     best_confidence |-> INITIAL_BEST_CONFIDENCE],
                    ms, 1).best_match)

\* the first match of the sequence that no match exceeds in confidence
EarliestHighest(ms) ==
    ms[CHOOSE i \in DOMAIN ms :
          /\ \A j \in DOMAIN ms :
                ms[j].confidence_score <= ms[i].confidence_score
          /\ \A j \in DOMAIN ms :
                j < i => ms[j].confidence_score < ms[i].confidence_score]

DistinctConfidences(ms) ==
    \A i, j \in DOMAIN ms :
        ms[i].confidence_score = ms[j].confidence_score => i = j

Permuted(ms, p) == [i \in DOMAIN ms |-> ms[p[i]]]

\* C3: the match returned is the match of highest confidence among those the
\* chunks produced, the earliest one among equals; and when the confidences
\* are pairwise distinct, aggregating the same matches in any other order
\* returns the same match.
C3_AggregationPicksMaximum ==
    (Aggregated /\ MatchesOf(log) # <<>>) =>
        LET ms == MatchesOf(log)
        IN  /\ result = EarliestHighest(ms)
            /\ DistinctConfidences(ms) =>
                  \A p \in Permutations(DOMAIN ms) :
                      Aggregate(Permuted(ms, p)) = result

\* C3 witness: three chunks answered with confidences 0.3, 0.9, 0.5 in this
\* order, and the 0.9 match returned.
C3_Witness ==
    /\ Aggregated
    /\ Len(MatchesOf(log)) = 3
    /\ MatchesOf(log)[1].confidence_score = 3
    /\ MatchesOf(log)[2].confidence_score = 9
    /\ MatchesOf(log)[3].confidence_score = 5
    /\ result = MatchesOf(log)[2]

\* C4: when no call produced a result (or there was no chunk), the value
\* returned is the fixed sentinel: the 'unclassified' pair, confidence 0.1,
\* not validated, with the text saying that no valid match was found.
C4_FallbackGuarantee ==
    (Aggregated /\ ResultsOf(log) = <<>>) =>
        result = [edam_id |-> "http://edamontology.org/topic_3365",
                  edam_label |-> "Data architecture, analysis and design",
                  confidence_score |-> 1,
                  reasoning |->
                     "Error during matching: No valid match found in any chunk.",
                  validated |-> FALSE]

\* C4 witness: several chunks, every call of every chunk failed, and the
\* sentinel was returned.
C4_Witness ==
    /\ Aggregated
    /\ Len(chunk_entries) >= 2
    /\ \A c \in DOMAIN chunk_entries : \E i \in DOMAIN log : log[i].chunk = c
    /\ ResultsOf(log) = <<>>
    /\ result.validated = FALSE /\ result.confidence_score = 1

\* result is a match with its five fields
WellFormedMatch(x) ==
    /\ x # NoMatch
    /\ DOMAIN x = {"edam_id", "edam_label", "confidence_score", "reasoning",
                   "validated"}
    /\ x.edam_id # None /\ x.edam_label # None
    /\ x.confidence_score \in Int
    /\ x.validated \in BOOLEAN

\* C5: whatever the oracle does on each call, the matching of the item makes
\* at most max_retries calls per chunk, reaches AGGREGATED, and is there with
\* a well-formed match; it stops nowhere else.
C5_TerminatesAggregated ==
    /\ <>Aggregated
    /\ [](Len(log) <= max_retries * Len(chunk_entries))
    /\ [](Aggregated => WellFormedMatch(result))
    /\ []((~ENABLED Next) => Aggregated)

\* C5 witness: an item whose calls succeeded, failed on capacity and failed
\* otherwise, and which reached AGGREGATED.
C5_Witness ==
    /\ Aggregated
    /\ \E i \in DOMAIN log : log[i].outcome = "transient"
    /\ \E i \in DOMAIN log : log[i].outcome = "other"
    /\ \E i \in DOMAIN log : log[i].outcome = "result"
    /\ WellFormedMatch(result)

CallsOf(c) == Cardinality({i \in DOMAIN log : log[i].chunk = c})

\* after call i the same chunk is tried again, with the next attempt number
Retried(i) ==
    IF i < Len(log)
    THEN /\ log[i + 1].chunk = log[i].chunk
         /\ log[i + 1].attempt = log[i].attempt + 1
    ELSE /\ pc = "QUERYING"
         /\ chunk_idx = log[i].chunk
         /\ attempt = log[i].attempt + 1

\* call i is the last call for its chunk, and the next chunk, if there is
\* one, comes next
MovedOn(i) ==
    /\ \A j \in DOMAIN log : j > i => log[j].chunk > log[i].chunk
    /\ IF i < Len(log)
       THEN log[i + 1].chunk = log[i].chunk + 1 /\ log[i + 1].attempt = 0
       ELSE IF log[i].chunk < Len(chunk_entries)
            THEN pc = "QUERYING" /\ chunk_idx = log[i].chunk + 1 /\ attempt = 0
            ELSE Aggregated

\* no match of the chunk of call i enters the aggregation
Skipped(i) ==
    \A j \in DOMAIN log : log[j].chunk = log[i].chunk => log[j].outcome # "result"

\* a chunk is given up on a transient-capacity error
GivenUpOnTransient(i) ==
    /\ log[i].outcome = "transient"
    /\ \A j \in DOMAIN log : j > i => log[j].chunk # log[i].chunk
    /\ Aggregated \/ chunk_idx > log[i].chunk

\* C6 as claimed: a chunk whose calls fail on capacity is given up only
\* after max_retries = 3 re-issued calls have followed the first failed call.
C6_Original ==
    \A i \in DOMAIN log :
        GivenUpOnTransient(i) => CallsOf(log[i].chunk) = 1 + max_retries

\* C6 amended: a call that fails on capacity is re-issued as long as fewer
\* than max_retries = 3 calls have been made for the chunk (2 re-issued
\* calls after the first failed one); after the third the chunk is skipped
\* in aggregation and the next chunk is processed.
C6_RetryCount ==
    /\ \A c \in DOMAIN chunk_entries : CallsOf(c) <= max_retries
    /\ \A i \in DOMAIN log :
          log[i].outcome = "transient" =>
             IF log[i].attempt + 1 < max_retries
             THEN Retried(i)
             ELSE /\ CallsOf(log[i].chunk) = max_retries
                  /\ Skipped(i)
                  /\ MovedOn(i)

\* C6 witness: the first chunk failed three times on capacity and a later
\* chunk gave the match that was returned.
C6_Witness ==
    /\ Aggregated
    /\ Len(log) >= 4
    /\ \A i \in 1..3 : log[i].chunk = 1 /\ log[i].outcome = "transient"
    /\ log[4].chunk = 2 /\ log[4].outcome = "result"
    /\ result = log[4].match

\* C7: a call that fails with another error is the last call for its chunk,
\* no match of that chunk enters the aggregation (the best match is the one
\* of the results alone), and the next chunk follows.
C7_NonTransientAborts ==
    /\ \A i \in DOMAIN log :
          log[i].outcome = "other" => MovedOn(i) /\ Skipped(i)
    /\ pc = "QUERYING" =>
          best_match = TrackAll([best_match |-> NoMatch,
                                 best_confidence |-> INITIAL_BEST_CONFIDENCE],
                                MatchesOf(log), 1).best_match

\* C7 witness: a retry of the first chunk failed with another error, and the
\* second chunk was queried and answered.
C7_Witness ==
    /\ Len(log) >= 3
    /\ log[1].chunk = 1 /\ log[1].outcome = "transient"
    /\ log[2].chunk = 1 /\ log[2].outcome = "other"
    /\ log[3].chunk = 2 /\ log[3].outcome = "result"

\* C8: once the matcher has returned a result for a chunk, no further call
\* is made for that chunk, whatever the validation of the result gave.
C8_NoRetryAfterResult ==
    \A i \in DOMAIN log : log[i].outcome = "result" => MovedOn(i)

\* C8 witness: three chunks called once each; the first answer failed
\* validation and was repaired, the second was valid as returned.
C8_Witness ==
    /\ Len(log) = 3
    /\ \A i \in 1..3 : log[i].chunk = i /\ log[i].outcome = "result"
    /\ log[1].match.validated /\ log[1].match.edam_label = "Data"
    /\ log[2].match.validated /\ log[2].match.edam_label = "Topic"

\* C8 witness of the other case is the same state of an item matched against
\* a table without the id: the match stays invalid and the next chunk follows.
C8_InvalidKept ==
    /\ Len(log) = 2
    /\ \A i \in 1..2 : log[i].chunk = i /\ log[i].outcome = "result"
    /\ ~log[1].match.validated
    /\ log[1].match.edam_label = "Some Random Label"

(***************************************************************************)
(* Properties of the validator, stated on the rows of the table.           *)
(***************************************************************************)
TableRows == validator.edam_df

IdInTable(id) == \E i \in DOMAIN TableRows : TableRows[i].id = id

LabelInTable(label) == \E i \in DOMAIN TableRows : TableRows[i].label = label

\* row i lists the string among its synonyms
ListsSynonym(i, syn) ==
    /\ notna(TableRows[i].synonyms)
    /\ syn # ""
    /\ \E k \in DOMAIN TableRows[i].synonyms :
          strip(TableRows[i].synonyms[k]) = syn

IsSynonymInTable(syn) == \E i \in DOMAIN TableRows : ListsSynonym(i, syn)

\* the canonical id of a synonym: the id of the last row that lists it
CanonicalIdOfSynonym(syn) ==
    TableRows[CHOOSE i \in DOMAIN TableRows :
                 /\ ListsSynonym(i, syn)
                 /\ \A j \in DOMAIN TableRows : ListsSynonym(j, syn) => j <= i].id

\* the canonical label of an id of the table
CanonicalLabelOfId(id) ==
    TableRows[CHOOSE i \in DOMAIN TableRows : TableRows[i].id = id].label

\* what validate(id, label) is to report, by the three checks in order
ExpectedOutcome(id, label) ==
    IF ~IdInTable(id) THEN "id not found"
    ELSE IF ~(LabelInTable(label)
              \/ (validator.use_synonyms /\ IsSynonymInTable(label)))
         THEN "label not found"
         ELSE IF \/ CanonicalLabelOfId(id) = label
                 \/ /\ validator.use_synonyms
                    /\ IsSynonymInTable(label)
                    /\ CanonicalIdOfSynonym(label) = id
              THEN "valid"
              ELSE "id/label mismatch"

\* the outcome that a returned (is_valid, message) pair reports
ReportedOutcome(out) ==
    CASE out[2] = IdNotFound -> "id not found"
      [] out[2] = LabelNotFound -> "label not found"
      [] out[2] \in {SynonymOfOther, WrongLabel} -> "id/label mismatch"
      [] out[2] \in {ValidMatch, ValidViaSynonym} -> "valid"

Validated == v_in # NoCall

\* C9: validate_match reports the first failing check in the order id not
\* found, label not found, id/label mismatch, and valid otherwise; it returns
\* true exactly when it reports valid.
C9_ValidationOrder ==
    Validated =>
        /\ ReportedOutcome(v_out) = ExpectedOutcome(v_in[1], v_in[2])
        /\ v_out[1] = (ReportedOutcome(v_out) = "valid")

\* C9 witness: neither the id nor the label is in a table of several rows,
\* and the call reported the id.
C9_Witness ==
    /\ Validated
    /\ Len(TableRows) >= 2
    /\ ~IdInTable(v_in[1])
    /\ ~LabelInTable(v_in[2]) /\ ~IsSynonymInTable(v_in[2])
    /\ v_out = <<FALSE, IdNotFound>>

\* the call was made on the id and the preferred label of a non-obsolete term
OnTermOfTable ==
    /\ Validated
    /\ \E i \in DOMAIN TableRows :
          /\ TableRows[i].obsolete = FALSE
          /\ v_in = <<TableRows[i].id, TableRows[i].label>>

\* C10: validate_match called with the id and the preferred label of a
\* non-obsolete term of the table returns valid, with synonyms on or off.
C10_ValidatorRoundTrip == OnTermOfTable => v_out[1] = TRUE

\* C10 witness: with synonyms on, the pair of a term whose label is also
\* listed as a synonym of another term was validated.
C10_Witness ==
    /\ OnTermOfTable
    /\ validator.use_synonyms
    /\ IsSynonymInTable(v_in[2])
    /\ v_out[1] = TRUE

(***************************************************************************)
(* Properties of fix_match and normalize_label_and_id.                     *)
(***************************************************************************)
\* the id of the row of the table that has the preferred label
IdOfLabel(label) ==
    TableRows[CHOOSE i \in DOMAIN TableRows : TableRows[i].label = label].id

\* the preferred label of the last row that lists the synonym
CanonicalLabelOfSynonym(syn) ==
    CanonicalLabelOfId(CanonicalIdOfSynonym(syn))

\* the label is valid: a preferred label, or a synonym when synonyms are on
LabelIsValid(label) ==
    \/ LabelInTable(label)
    \/ validator.use_synonyms /\ IsSynonymInTable(label)

\* the canonical id of a valid label
CanonicalIdOfLabel(label) ==
    IF LabelInTable(label) THEN IdOfLabel(label)
    ELSE CanonicalIdOfSynonym(label)

\* the pair fix(id, label) is to return
ExpectedRepair(id, label) ==
    IF IdInTable(id) THEN <<id, CanonicalLabelOfId(id)>>
    ELSE IF LabelIsValid(label) THEN <<CanonicalIdOfLabel(label), label>>
         ELSE <<id, label>>

\* C11: fix_match(id, label) returns (id, canonical label of id) when the id
\* is in the table; otherwise (canonical id of the label, label) when the
\* label is a preferred label, or a synonym with synonyms on; otherwise the
\* pair unchanged.
C11_RepairContract ==
    Validated => v_out = ExpectedRepair(v_in[1], v_in[2])

\* the case that departs from C11: an unknown id with a label that is valid
\* as a synonym only comes back unchanged
C11_SynonymNotRepaired ==
    /\ Validated
    /\ validator.use_synonyms
    /\ ~IdInTable(v_in[1])
    /\ ~LabelInTable(v_in[2]) /\ IsSynonymInTable(v_in[2])
    /\ v_out = v_in

\* what normalize(s) is to return
ExpectedNormalized(s) ==
    IF LabelInTable(s) THEN <<s, IdOfLabel(s)>>
    ELSE IF validator.use_synonyms /\ IsSynonymInTable(s)
         THEN <<CanonicalLabelOfSynonym(s), CanonicalIdOfSynonym(s)>>
         ELSE <<None, None>>

\* C12: normalize_label_and_id(s) returns (s, id of s) for a preferred
\* label; with synonyms on and s a synonym, the preferred label and id of
\* the (last) term listing it; (None, None) otherwise, also for every
\* synonym when synonyms are off.  With synonyms off validate_label accepts
\* the preferred labels only.
C12_NormalizeContract ==
    Validated =>
        /\ v_out.normalized = ExpectedNormalized(v_in[1])
        /\ ~validator.use_synonyms => (v_out.is_label = LabelInTable(v_in[1]))

\* C12 witness: with synonyms off, a string the table lists as a synonym
\* only was looked up: it is not normalised and not accepted as a label.
C12_Witness ==
    /\ Validated
    /\ ~validator.use_synonyms
    /\ ~LabelInTable(v_in[1])
    /\ \E i \in DOMAIN TableRows : ListsSynonym(i, v_in[1])
    /\ v_out.normalized = <<None, None>>
    /\ v_out.is_label = FALSE

\* with synonyms on, a synonym was normalised to the pair of its term
C12_SynonymResolved ==
    /\ Validated
    /\ validator.use_synonyms
    /\ ~LabelInTable(v_in[1])
    /\ IsSynonymInTable(v_in[1])
    /\ v_out.normalized[1] # v_in[1]

(***************************************************************************)
(* Properties of the match recorded for an answer.                         *)
(***************************************************************************)
\* the oracle answered the id of row t with a synonym of row t as label
AnsweredSynonymOf(t) ==
    /\ Validated
    /\ validator.use_synonyms
    /\ v_in[1] = TableRows[t].id
    /\ ListsSynonym(t, v_in[2])

\* the match recorded is the canonical pair of row t, validated
CanonicalMatchOf(t) ==
    /\ v_out.edam_id = TableRows[t].id
    /\ v_out.edam_label = TableRows[t].label
    /\ v_out.validated = TRUE

\* no other row lists the string as a synonym, and no row has it as its
\* preferred label
Unambiguous(t, syn) ==
    /\ ~LabelInTable(syn)
    /\ \A u \in DOMAIN TableRows : ListsSynonym(u, syn) => u = t

BeyondRepair(answer) ==
    /\ ~IdInTable(answer[1])
    /\ ~LabelIsValid(answer[2])

\* the k-th call answered, and its confidence exceeds that of every other
\* match of the item
StrictlyHighest(k) ==
    \A j \in DOMAIN log :
        (j # k /\ log[j].outcome = "result") =>
            log[j].match.confidence_score < log[k].match.confidence_score

\* C14: an answer of which neither the id nor the label is known is
\* recorded with the oracle's id, label and confidence and validated =
\* false; and when its confidence is the highest of the item's matches it is
\* the result returned for the item.
C14_UnrepairableKept ==
    \A k \in DOMAIN log :
        (log[k].outcome = "result" /\ BeyondRepair(log[k].answer)) =>
            /\ log[k].match = OntologyMatch(log[k].answer[1], log[k].answer[2],
                                            log[k].answer[3], OracleReasoning,
                                            FALSE)
            /\ (Aggregated /\ StrictlyHighest(k)) => result = log[k].match

\* C14 witness: a valid answer of confidence 0.5 and an answer beyond repair
\* of confidence 0.9 were recorded, and the one beyond repair was returned.
C14_Witness ==
    /\ Aggregated
    /\ \E j, k \in DOMAIN log :
          /\ log[j].outcome = "result" /\ log[j].match.validated
          /\ log[j].match.confidence_score = 5
          /\ log[k].outcome = "result" /\ BeyondRepair(log[k].answer)
          /\ log[k].match.confidence_score = 9
          /\ result = log[k].match
          /\ result.validated = FALSE

(***************************************************************************)
(* Properties of process_packages_in_batches.                              *)
(***************************************************************************)
Returned == run = "RETURNED"

\* the package has a name and a description
HasFields(package) == {"name", "description"} \subseteq DOMAIN package

\* the positions of the packages of a list that have both fields, in order
ValidPositions(packages) ==
    SelectSeq([i \in 1..Len(packages) |-> i],
              LAMBDA i : HasFields(packages[i]))

CountValid(packages) == Len(ValidPositions(packages))

\* a record without its edam_match
Unannotated(record) ==
    [k \in (DOMAIN record) \ {"edam_match"} |-> record[k]]

\* the records are those of the packages of the list that have both
\* fields, one each, in the order of the list
RecordsOf(records, packages) ==
    /\ Len(records) = CountValid(packages)
    /\ \A j \in DOMAIN records :
          /\ "edam_match" \in DOMAIN records[j]
          /\ Unannotated(records[j]) = packages[ValidPositions(packages)[j]]

\* the least number of batches of the given size that hold n items
LeastCount(n, size) ==
    CHOOSE k \in 0..n :
        /\ k * size >= n
        /\ \A j \in 0..n : j * size >= n => k <= j

\* C15: the batches taken are consecutive pieces of the input, each of at
\* least one and at most batch_size packages, all but the last of exactly
\* batch_size; when the function returns there were ceil(n / batch_size) of
\* them and, put end to end, they are the input list.
C15_BatchPartitioning ==
    /\ \A k \in DOMAIN batches :
          /\ Len(batches[k]) \in 1..batch_size
          /\ k < Len(batches) => Len(batches[k]) = batch_size
    /\ Flatten(batches) = SubSeq(packages_data, 1, Len(Flatten(batches)))
    /\ Returned =>
          /\ Len(batches) = LeastCount(Len(packages_data), batch_size)
          /\ Flatten(batches) = packages_data

\* C15 witness: three packages in batches of two were taken as a batch of
\* two and a batch of one.
C15_Witness ==
    /\ Returned
    /\ Len(packages_data) = 3
    /\ batch_size = 2
    /\ Len(batches) = 2
    /\ Len(batches[1]) = 2 /\ Len(batches[2]) = 1

\* C16: the list returned holds exactly one record for each package of the
\* input that has a name and a description, in the order of the input, and
\* each record is the package with an edam_match added.
C16_OneRecordPerValidItem ==
    Returned =>
        /\ RecordsOf(all_results, packages_data)
        /\ \A j \in DOMAIN all_results :
              WellFormedMatch(all_results[j].edam_match)

\* C16 witness: edgeR, a package without description and limma, in batches
\* of two, gave the records of edgeR and limma in this order.
C16_Witness ==
    /\ Returned
    /\ batch_size = 2
    /\ Len(packages_data) = 3
    /\ ~HasFields(packages_data[2])
    /\ Len(all_results) = 2
    /\ all_results[1].name = "edgeR"
    /\ all_results[2].name = "limma"

\* the name of the file of batch k (1-based)
FileOfBatch(k) == "batch_" \o ToString(k) \o "_results.json"

\* the records of the packages of the batches before batch k
RecordsBefore(k) == CountValid(Flatten(SubSeq(batches, 1, k - 1)))

\* the file of batch k exists and holds the records of the batch
BatchFileHolds(k) ==
    /\ FileOfBatch(k) \in DOMAIN files
    /\ RecordsOf(files[FileOfBatch(k)], batches[k])
    /\ files[FileOfBatch(k)] =
          SubSeq(all_results, RecordsBefore(k) + 1,
                 RecordsBefore(k) + CountValid(batches[k]))

\* the batches before the one in progress, or the one that failed, are on
\* disk
EarlierBatchesHeld ==
    run \in {"BATCH", "RAISED"} => \A k \in 1..batch_num : BatchFileHolds(k)

\* no step changes or removes a file that exists
FilesKept ==
    \A f \in DOMAIN files : f \in DOMAIN files' /\ files'[f] = files[f]

\* C17: when the run fails during batch k (or is still in it), the files of
\* batches 1..k-1 exist and hold exactly the records of those batches; and
\* a file once written is never changed or removed by a later step of the
\* run.
C17_BatchDurability == []EarlierBatchesHeld /\ [][FilesKept]_vars

\* C17 witness: the second batch failed on a description that is None, and
\* the file of the first batch holds its two records.
C17_Witness ==
    /\ run = "RAISED"
    /\ raised = "TypeError"
    /\ batch_num = 1
    /\ FileOfBatch(1) \in DOMAIN files
    /\ Len(files[FileOfBatch(1)]) = 2

\* the packages the loops are done with
Consumed ==
    IF run = "CREATED" THEN 0
    ELSE IF Returned THEN Len(packages_data)
         ELSE Len(Flatten(SubSeq(batches, 1, Len(batches) - 1))) + pkg_idx

\* the records made so far
Records ==
    IF run = "BATCH" \/ raised = "TypeError"
    THEN all_results \o batch_results
    ELSE all_results

Range(f) == {f[x] : x \in DOMAIN f}

\* C18: match_package_to_ontology is never called for a package that lacks
\* a name or a description (so no call of the oracle is made for it); it is
\* called for every other package the loops have passed; and the records
\* made are those of the packages passed that have both fields, as if the
\* others were not in the list.
C18_MissingFieldSkip ==
    /\ \A p \in DOMAIN packages_data :
          ~HasFields(packages_data[p]) => p \notin Range(matched)
    /\ \A p \in 1..Consumed :
          HasFields(packages_data[p]) => p \in Range(matched)
    /\ RecordsOf(Records, SubSeq(packages_data, 1, Consumed))

\* C18 witness: a package without a name came first in a batch of two, and
\* the package after it was matched and is the only record.
C18_Witness ==
    /\ Returned
    /\ batch_size = 2
    /\ Len(packages_data) = 2
    /\ "name" \notin DOMAIN packages_data[1]
    /\ matched = <<2>>
    /\ Len(all_results) = 1
    /\ Unannotated(all_results[1]) = packages_data[2]

\* C19: no failure raised while an item is processed leaves
\* process_packages_in_batches.
C19_FailureContainment == ~(run = "RAISED" /\ raised = "TypeError")

\* the file of a batch could not be written, and the run ended with it
C19_WriteFailureAborts == run = "RAISED" /\ raised = "OSError"

(***************************************************************************)
(* Properties of search_relevant_terms.                                    *)
(***************************************************************************)
\* the position of a term in the table that is searched
PositionOf(id) == CHOOSE i \in DOMAIN edam_df : edam_df[i].id = id

\* the lexical-overlap score of the term at position i for the call made:
\* the share of common words for the basic system, the largest number of
\* common words for the enhanced one
ScoreOf(i) ==
    IF v_in[1] = "EDAMMatchingSystem"
    THEN score(v_in[2], edam_df[i])
    ELSE [num |-> max_overlap(v_in[2], edam_df[i]), den |-> 1]

Returns(i) == \E j \in DOMAIN v_out : v_out[j].edam_id = edam_df[i].id

\* the candidates are in descending order of score, in the order of the
\* table among equals, and no term left out scores higher than one returned
Ranked ==
    /\ \A j, k \in DOMAIN v_out :
          j < k =>
            LET a == PositionOf(v_out[j].edam_id)
                b == PositionOf(v_out[k].edam_id)
            IN  /\ ~Greater(ScoreOf(b), ScoreOf(a))
                /\ ~Greater(ScoreOf(a), ScoreOf(b)) => a < b
    /\ \A i, k \in DOMAIN edam_df :
          (Returns(i) /\ ~Returns(k)) => ~Greater(ScoreOf(k), ScoreOf(i))

\* C20: the candidates search_relevant_terms returns are ordered by
\* lexical-overlap score, highest first, equal scores in the order of the
\* vocabulary, and no term left out has a strictly higher score than a term
\* returned.
C20_RankingOrder == Validated => Ranked

\* the same for the basic system alone, whose list is sorted
C20_BasicRanked == (Validated /\ v_in[1] = "EDAMMatchingSystem") => Ranked

\* the basic system returned a term that is later in the table ahead of an
\* earlier one of lower score
C20_BasicReordered ==
    /\ Validated
    /\ v_in[1] = "EDAMMatchingSystem"
    /\ Len(v_out) = 2
    /\ PositionOf(v_out[1].edam_id) > PositionOf(v_out[2].edam_id)

\* the enhanced system left out a term that scores higher than the one it
\* returned
C20_EnhancedLeavesOutBetter ==
    /\ Validated
    /\ v_in[1] = "EnhancedEDAMMatchingSystem"
    /\ \E i, k \in DOMAIN edam_df :
          Returns(i) /\ ~Returns(k) /\ Greater(ScoreOf(k), ScoreOf(i))

\* the texts of a term whose words are compared with those of the
\* description: label, definition and the synonyms cell, and for the
\* enhanced system each synonym of the cell as well
TermTexts(row) ==
    {OrEmpty(row.label), OrEmpty(row.definition)}
        \cup (IF notna(row.synonyms)
              THEN {SynonymsCell(row.synonyms)}
                   \cup (IF v_in[1] = "EnhancedEDAMMatchingSystem"
                         THEN {strip(row.synonyms[k]) :
                                  k \in DOMAIN row.synonyms}
                         ELSE {})
              ELSE {})

\* the term at position i has a word in common with the description
SharesWord(i) ==
    \E text \in TermTexts(edam_df[i]) :
        lower_split(v_in[2]) \cap lower_split(text) # {}

\* the row of the table read from the file that has this id is not obsolete
ActiveInFile(id) ==
    \E n \in DOMAIN validator.edam_df :
        /\ validator.edam_df[n].id = id
        /\ ~validator.edam_df[n].obsolete

\* at most top_k candidates, each one an active term of the vocabulary that
\* has a word in common with the description, no term twice
BoundedAndOverlapping ==
    /\ Len(v_out) <= v_in[3]
    /\ \A j \in DOMAIN v_out :
          /\ \E i \in DOMAIN edam_df :
                edam_df[i].id = v_out[j].edam_id /\ SharesWord(i)
          /\ ActiveInFile(v_out[j].edam_id)
          /\ \A k \in DOMAIN v_out : v_out[k].edam_id = v_out[j].edam_id => k = j
    /\ \A i \in DOMAIN edam_df : ~SharesWord(i) => ~Returns(i)

\* C21 as stated: search_relevant_terms returns at most top_k candidates,
\* each an active term sharing a word with the description, never a term
\* without a common word, and nothing exactly when no term shares a word.
C21_Original ==
    Validated =>
        /\ BoundedAndOverlapping
        /\ (v_out = <<>>) <=> (\A i \in DOMAIN edam_df : ~SharesWord(i))

\* C21: for top_k >= 0, search_relevant_terms returns at most top_k
\* candidates, each an active term sharing a word with the description,
\* never a term without a common word, and nothing exactly when no term
\* shares a word or top_k is 0.
C21_RankingBound ==
    Validated =>
        /\ BoundedAndOverlapping
        /\ (v_out = <<>>) <=>
              (v_in[3] = 0 \/ \A i \in DOMAIN edam_df : ~SharesWord(i))

\* C21 witness: two terms share a word with the description and top_k = 1
\* kept one of them, while a term without a common word is in the table.
C21_Witness ==
    /\ Validated
    /\ v_in[3] = 1
    /\ Len(v_out) = 1
    /\ \E i, k, n \in DOMAIN edam_df :
          /\ i # k
          /\ SharesWord(i) /\ SharesWord(k)
          /\ ~SharesWord(n)

\* a search with top_k = 0 over a table that has a term sharing a word
C21_EmptyWithOverlap ==
    /\ Validated
    /\ v_in[3] = 0
    /\ v_out = <<>>
    /\ \E i \in DOMAIN edam_df : SharesWord(i)

(***************************************************************************)
(* Properties of the candidates of the basic matcher.                      *)
(***************************************************************************)
\* the matcher was called for a description no term of the vocabulary
\* shares a word with
RankerFoundNone ==
    /\ pc # "PENDING"
    /\ search_relevant_terms(edam_df, v_in[1], SEARCH_TOP_K) = <<>>

\* the positions in the vocabulary of the terms of a category
TermsOf(category) ==
    {i \in DOMAIN edam_df : str_contains(edam_df[i].id, category)}

\* the positions in the vocabulary of the candidates sent that are of a
\* category
SentOf(category) ==
    {i \in TermsOf(category) :
        \E j \in DOMAIN v_out : v_out[j].edam_id = edam_df[i].id}

\* every candidate sent is a term of one of the three categories, sent
\* once, and the terms sent of a category are its first ones in the
\* vocabulary
HeadsOfCategories ==
    /\ \A j \in DOMAIN v_out :
          /\ \E c \in DOMAIN Categories :
                \E i \in TermsOf(Categories[c]) :
                    edam_df[i].id = v_out[j].edam_id
          /\ \A k \in DOMAIN v_out :
                v_out[k].edam_id = v_out[j].edam_id => k = j
    /\ \A c \in DOMAIN Categories :
          \A i \in SentOf(Categories[c]), k \in TermsOf(Categories[c]) :
              k < i => k \in SentOf(Categories[c])

\* C22 as stated: when the ranker returns no candidate, the oracle is not
\* queried with an empty list but with top_k // 3 terms, the first in
\* vocabulary order, of each of Topic, Operation and Data.
C22_Original ==
    RankerFoundNone =>
        /\ v_out # <<>>
        /\ HeadsOfCategories
        /\ \A c \in DOMAIN Categories :
              Cardinality(SentOf(Categories[c])) = DEFAULT_TOP_K \div 3

\* C22: when the ranker returns no candidate, the oracle is queried with
\* the first top_k // 3 terms, in vocabulary order, of each of Topic,
\* Operation and Data, all the terms of a category that has fewer, and with
\* an empty list only when the vocabulary has no term of the three.
C22_DefaultSample ==
    RankerFoundNone =>
        /\ HeadsOfCategories
        /\ \A c \in DOMAIN Categories :
              Cardinality(SentOf(Categories[c])) =
                  min(DEFAULT_TOP_K \div 3,
                      Cardinality(TermsOf(Categories[c])))
        /\ v_out = <<>> =>
              \A c \in DOMAIN Categories : TermsOf(Categories[c]) = {}

\* C22 witness: nothing in a vocabulary with more than three topics shares
\* a word with the description, and the matcher answered a query of nine
\* candidates, three of each category.
C22_Witness ==
    /\ RankerFoundNone
    /\ pc = "RETURNED"
    /\ Len(v_out) = 9
    /\ Cardinality(TermsOf("topic_")) > 3
    /\ \A c \in DOMAIN Categories : Cardinality(SentOf(Categories[c])) = 3

\* the default sample has two topics and three operations
C22_UnbalancedSample ==
    /\ RankerFoundNone
    /\ Cardinality(SentOf("topic_")) = 2
    /\ Cardinality(SentOf("operation_")) = 3

\* the oracle was queried with no candidate
C22_EmptyQuery ==
    /\ RankerFoundNone
    /\ v_out = <<>>
    /\ pc = "RETURNED"

(***************************************************************************)
(* Obsolete terms.                                                         *)
(***************************************************************************)
\* the rows of the file that are marked obsolete
ObsoleteRows == {n \in DOMAIN TableRows : TableRows[n].obsolete}

\* C23: the validator's lookups cover non-obsolete terms only: for an
\* obsolete term o of the file, the id o.id does not exist, it has no
\* label, and validate(o.id, o.label) is not valid.
C23_ObsoleteExcluded ==
    Validated =>
        \A n \in ObsoleteRows :
            /\ ~validate_id(validator, TableRows[n].id)
            /\ get_label_for_id(validator, TableRows[n].id) = None
            /\ v_in = <<TableRows[n].id, TableRows[n].label>> => ~v_out[1]

\* validate_match was called on the pair of an obsolete term and found it
\* valid
C23_ObsoleteValidated ==
    /\ Validated
    /\ \E n \in ObsoleteRows :
          v_in = <<TableRows[n].id, TableRows[n].label>>
    /\ v_out[1]

\* the entries sent to the oracle are those of the non-obsolete rows of the
\* file, in order
C23_NoObsoleteCandidate ==
    pc \in {"QUERYING", "AGGREGATED"} =>
        Flatten(chunk_entries) =
            ontology_entries(
                SelectSeq(TableRows, LAMBDA row : ~row.obsolete), simple_mode)

\* the file has an obsolete row and the oracle is being queried
C23_ObsoleteInFile == pc = "QUERYING" /\ ObsoleteRows # {}

(***************************************************************************)
(* An existing id answered with the label of another term.                 *)
(***************************************************************************)
\* the oracle answered an id of the file with a label that is valid but
\* belongs to a different term
AnsweredMismatch ==
    /\ Validated
    /\ ExpectedOutcome(v_in[1], v_in[2]) = "id/label mismatch"

\* C24: an answer made of an existing id and a valid label of a different
\* term is repaired by trusting the id: the match recorded has the id of
\* the answer and the canonical label of that id, validated.
C24_IdTrustedOnMismatch ==
    AnsweredMismatch =>
        /\ v_out.edam_id = v_in[1]
        /\ v_out.edam_label = CanonicalLabelOfId(v_in[1])
        /\ v_out.validated = TRUE

\* the answer (topic_0003, Analysis) was recorded as the term of the label,
\* with another id than the one answered
C24_LabelTrusted ==
    /\ AnsweredMismatch
    /\ v_in[1] = "topic_0003" /\ v_in[2] = "Analysis"
    /\ v_out.edam_id = "operation_2945"
    /\ v_out.edam_label = "Analysis"
    /\ v_out.validated = TRUE

(***************************************************************************)
(* The validated flag of the match returned.                               *)
(***************************************************************************)
\* the pair passes validation: the id is in the file, and the label is the
\* id's preferred label or, with synonyms on, a synonym resolving to the id
PassesValidation(id, label) == ExpectedOutcome(id, label) = "valid"

\* C25: for every match match_package_to_ontology returns other than the
\* fallback, validated is true exactly when the pair (edam_id, edam_label)
\* returned passes validation.
C25_HonestValidatedFlag ==
    (Aggregated /\ ResultsOf(log) # <<>>) =>
        (result.validated <=>
            PassesValidation(result.edam_id, result.edam_label))

\* C25 witness: the answer (data_0006, Some Random Label) was repaired and
\* the function returned (data_0006, Data) marked validated.
C25_Witness ==
    /\ Aggregated
    /\ ResultsOf(log) # <<>>
    /\ result.validated
    /\ result.edam_id = "data_0006" /\ result.edam_label = "Data"
    /\ \E k \in DOMAIN log :
          /\ log[k].outcome = "result"
          /\ log[k].answer[2] = "Some Random Label"

\* a match beyond repair was returned with validated false
C25_UnvalidatedReturned ==
    /\ Aggregated
    /\ ResultsOf(log) # <<>>
    /\ ~result.validated
    /\ ~PassesValidation(result.edam_id, result.edam_label)

\* the same for every answer the matcher can give for a chunk: the match
\* recorded is marked validated exactly when its pair passes validation
C25_RecordedFlagHonest ==
    Validated =>
        (v_out.validated <=> PassesValidation(v_out.edam_id, v_out.edam_label))

(***************************************************************************)
(* When the file of a batch is written.                                    *)
(***************************************************************************)
\* the files of batches 1..k, one after the other
RECURSIVE FilesConcatenated(_)
FilesConcatenated(k) ==
    IF k = 0 THEN <<>>
    ELSE FilesConcatenated(k - 1) \o files[FileOfBatch(k)]

\* while a batch is in progress the files on disk are those of the batches
\* before it; after the return they are those of all batches, and one after
\* the other they are the list returned
FilesOfCompletedBatches ==
    /\ run = "BATCH" =>
          DOMAIN files = {FileOfBatch(k) : k \in 1..batch_num}
    /\ Returned =>
          /\ DOMAIN files = {FileOfBatch(k) : k \in 1..Len(batches)}
          /\ FilesConcatenated(Len(batches)) = all_results

\* a step that creates a file creates that of the batch in progress, when
\* every package of the batch was passed and no call of the matcher is
\* open, with the records of the packages of the batch that have both
\* fields, in order
WrittenWhenComplete ==
    \A f \in (DOMAIN files') \ (DOMAIN files) :
        /\ run = "BATCH"
        /\ f = FileOfBatch(batch_num + 1)
        /\ pkg_idx = Len(batch)
        /\ pc = "IDLE"
        /\ RecordsOf(files'[f], batch)
        /\ \A j \in DOMAIN files'[f] :
              WellFormedMatch(files'[f][j].edam_match)

\* C26: the file of batch k is written only after every non-skipped item of
\* batch k has its edam_match, before any item of batch k+1 starts
\* matching, and holds exactly the records of batch k in order; the files,
\* one after the other in batch order, are the list returned.
C26_PersistAfterBatch ==
    []FilesOfCompletedBatches /\ [][WrittenWhenComplete]_vars

\* C26 witness: three packages in batches of two returned, with two records
\* in the first file and one in the second.
C26_Witness ==
    /\ Returned
    /\ batch_size = 2
    /\ Len(batches) = 2
    /\ Len(files[FileOfBatch(1)]) = 2
    /\ Len(files[FileOfBatch(2)]) = 1
    /\ Len(all_results) = 3

(***************************************************************************)
(* The waits between the attempts on a chunk.                              *)
(***************************************************************************)
\* the number of the call among the calls made for its chunk
CallNumber(i) ==
    Cardinality({j \in 1..i : log[j].chunk = log[i].chunk})

\* the call failed on a capacity error and the chunk is tried again
RetryFollows(i) ==
    /\ log[i].outcome = "transient"
    /\ IF i < Len(log) THEN log[i + 1].chunk = log[i].chunk
       ELSE pc = "QUERYING" /\ chunk_idx = log[i].chunk

\* the linear backoff, on the calls made so far: 10 * n seconds after the
\* n-th call of a chunk when the chunk is tried again, and no wait after
\* any other call (a result, a failure of another kind, the last attempt
\* allowed); the waits of a chunk grow, and the first call of a chunk is
\* attempt 0
LinearBackoff ==
    /\ \A i \in DOMAIN log :
          /\ log[i].slept =
                (IF RetryFollows(i) THEN 10 * CallNumber(i) ELSE 0)
          /\ (i = 1 \/ log[i - 1].chunk # log[i].chunk) => log[i].attempt = 0
    /\ \A i \in DOMAIN log :
          \A j \in (i + 1)..Len(log) :
              (log[i].chunk = log[j].chunk /\ log[j].slept > 0)
                  => log[i].slept < log[j].slept

\* C27: before the n-th retry of a chunk after a capacity error the client
\* waits 10 * n seconds, so the waits grow within a chunk; it does not wait
\* after the last attempt allowed nor after a failure of another kind, and
\* the attempts of the next chunk are counted from the start.
C27_LinearBackoff == LinearBackoff

\* C27 witness: three capacity errors on the first chunk with waits of 10,
\* 20 and 0 seconds, then a capacity error on the first attempt of the
\* second chunk with a wait of 10 seconds.
C27_Witness ==
    /\ Len(log) >= 5
    /\ \A i \in 1..3 : log[i].chunk = 1 /\ log[i].outcome = "transient"
    /\ log[1].slept = 10 /\ log[2].slept = 20 /\ log[3].slept = 0
    /\ log[4].chunk = 2 /\ log[4].attempt = 0
    /\ log[4].outcome = "transient" /\ log[4].slept = 10
    /\ log[5].chunk = 2

(***************************************************************************)
(* The range of the confidence returned.                                   *)
(***************************************************************************)
\* C28: every match match_package_to_ontology returns has a
\* confidence_score between 0.0 and 1.0, whatever the oracle reports.
C28_ConfidenceRange ==
    Aggregated =>
        (result.confidence_score >= 0 /\ result.confidence_score <= 10)

\* the oracle reported 1.5 for a chunk and the match returned has 1.5
C28_AboveOne ==
    /\ Aggregated
    /\ result.confidence_score = 15
    /\ \E k \in DOMAIN log :
          log[k].outcome = "result" /\ log[k].answer[3] = 15

\* the oracle reported -0.5 for the only chunk answered and the match
\* returned has -0.5
C28_BelowZero ==
    /\ Aggregated
    /\ result.confidence_score = -5

\* with the confidences of Confidences, all within the range, the match
\* returned is within the range
C28_InRangeKept ==
    (Aggregated /\ \A k \in DOMAIN log :
                      log[k].outcome = "result" =>
                          (log[k].answer[3] >= 0 /\ log[k].answer[3] <= 10))
        => (result.confidence_score >= 0 /\ result.confidence_score <= 10)

(***************************************************************************)
(* What the batch runner leaves alone.                                     *)
(***************************************************************************)
\* every record made so far, in all_results, in the batch in progress and
\* in the files, has the fields of the package it was made for with the
\* values they have in the input, description included, and edam_match as
\* the only other field
RecordsKeepFields ==
    /\ \A j \in DOMAIN Records :
          LET package == packages_data[matched[j]]
          IN  /\ DOMAIN Records[j] = (DOMAIN package) \cup {"edam_match"}
              /\ "edam_match" \notin DOMAIN package
              /\ \A field \in DOMAIN package :
                    Records[j][field] = package[field]
    /\ \A f \in DOMAIN files :
          \A j \in DOMAIN files[f] :
              \E p \in DOMAIN packages_data :
                  /\ DOMAIN files[f][j] =
                        (DOMAIN packages_data[p]) \cup {"edam_match"}
                  /\ \A field \in DOMAIN packages_data[p] :
                        files[f][j][field] = packages_data[p][field]

\* no step changes the input list, the vocabulary of the system or the
\* indexes of the validator
InputsKept ==
    /\ packages_data' = packages_data
    /\ edam_df' = edam_df
    /\ validator' = validator

\* C29: each output record has the name, the description and the other
\* fields of its input record with the same values, plus the single field
\* edam_match; and matching, with the validation, repair and normalisation
\* it runs, modifies neither the input, nor the vocabulary, nor the
\* validator.
C29_BatchFrame == []RecordsKeepFields /\ [][InputsKept]_vars

\* C29 witness: limma, with a version field, was matched and returned with
\* its three fields and an edam_match.
C29_Witness ==
    /\ Returned
    /\ Len(all_results) >= 1
    /\ all_results[1].name = "limma"
    /\ all_results[1].version = "3.58.1"
    /\ all_results[1].description = "Linear models for microarray data"
    /\ WellFormedMatch(all_results[1].edam_match)

(***************************************************************************)
(* The match of an item depends on the item alone.                         *)
(***************************************************************************)
\* the package match_package_to_ontology is running for
CurrentPackage == batch[pkg_idx + 1]

\* while an item is matched: the chunks are those of the vocabulary for the
\* length of its own description, every match in the log is the answer of
\* the oracle to one of its own calls as the validator records it, the best
\* match so far is the aggregation of these matches from the initial state,
\* and the match returned is their aggregate
OwnCallsOnly ==
    (run = "BATCH" /\ pc \in {"QUERYING", "AGGREGATED"}) =>
        /\ chunk_entries =
              ChunkEntries(ontology_entries(edam_df, simple_mode),
                           chunk_char_budget(validator.use_synonyms,
                                             Len(CurrentPackage.description)))
        /\ \A k \in DOMAIN log :
              /\ log[k].chunk \in DOMAIN chunk_entries
              /\ log[k].outcome = "result" =>
                    log[k].match =
                        ProcessResult(validator,
                                      [edam_id |-> log[k].answer[1],
                                       edam_label |-> log[k].answer[2],
                                       confidence_score |-> log[k].answer[3],
                                       reasoning |-> OracleReasoning])
        /\ [best_match |-> best_match, best_confidence |-> best_confidence]
              = TrackAll([best_match |-> NoMatch,
                          best_confidence |-> INITIAL_BEST_CONFIDENCE],
                         MatchesOf(log), 1)
        /\ Aggregated => result = Aggregate(MatchesOf(log))

\* the record a step adds to the batch is the package with the aggregate of
\* the matches of its own calls
RecordFromOwnCalls ==
    (run = "BATCH" /\ Len(batch_results') = Len(batch_results) + 1) =>
        batch_results'[Len(batch_results')] =
            Put(CurrentPackage, "edam_match", Aggregate(MatchesOf(log)))

\* C30: the aggregation state is reset for each item, so it compares only
\* matches made for chunks of that item, and the match of an item is a
\* function of its description, the vocabulary and the answers of the
\* oracle to its own calls, whatever items come before it.
C30_ItemIndependence == []OwnCallsOnly /\ [][RecordFromOwnCalls]_vars

\* C30 witness: the second item of a batch got the unvalidated match of its
\* own answer although the item before it got a validated one with the same
\* confidence.
C30_Witness ==
    /\ run = "BATCH"
    /\ Len(batch_results) = 2
    /\ batch_results[1].edam_match.validated
    /\ ~batch_results[2].edam_match.validated
    /\ batch_results[2].edam_match.edam_label = "Some Random Label"
    /\ batch_results[1].edam_match.confidence_score =
          batch_results[2].edam_match.confidence_score

====
